---- MODULE Spec2Model ----
(***************************************************************************)
(* State-machine model of src/TG_Chat_Bot-D1.js, a Cloudflare Worker that  *)
(* relays private Telegram chats into forum topics of an operator group.   *)
(*                                                                         *)
(* The store (D1 tables users and config) is the only durable state; the  *)
(* module-scoped CACHE object (config cache and lock map) is per worker    *)
(* process.  Every handler is an async function: it is modelled as a task  *)
(* whose steps are cut at the awaits that touch shared state, so that two  *)
(* handlers interleave exactly where the JavaScript event loop lets them.  *)
(*                                                                         *)
(* One specification per subsystem, over the same variables:                *)
(*   SpecInfo   updUser / mergeUserInfo on user_info_json                  *)
(*   SpecCfg    getCfg / setCfg / admin input state                        *)
(*   SpecBlock  handlePrivate, handleEdit, block callbacks, accrual        *)
(*   SpecBlockSeq  the same, handlers dispatched one after another         *)
(*   SpecTopic  relayToTopic, verifyAnswer, handleTokenSubmit              *)
(*   SpecStart  /start of a new user, the messages it sends                *)
(*   SpecSubmit  POST /submit_token: captcha token and initData            *)
(*   SpecConsole  who writes the config table                              *)
(*   SpecRelay  forward, copy, delivery mark, topic loss                   *)
(*   SpecPipe   handleVerifiedMsg: keywords, type switches, auto-reply     *)
(*   SpecBoard  inbox board, blacklist board, quiet-hours notice           *)
(*   SpecBoardSeq  the same, handlers dispatched one after another         *)
(*   SpecReply  handleAdminReply: operator-group messages to the user      *)
(*   SpecFetch  the HTTP entry and handleUpdate                            *)
(*   SpecInput  the console's two-step edit                                *)
(*   SpecRule   the auto-reply rule input and its format                   *)
(*   SpecPipeBlock  the pipeline with the block and unblock buttons        *)
(*   SpecPress  who presses the block and unblock buttons                  *)
(*   SpecAnswer  the QA answer, the gates and the pipeline                 *)
(*   SpecSubmitFail  what a refused /submit_token leaves behind            *)
(***************************************************************************)
EXTENDS Integers, FiniteSets, Sequences, TLC

VARIABLES
    users,   \* store, table users: user id -> row
    config,  \* store, table config: key -> value ("" = no row)
    CACHE,   \* per worker process: [data, ts, locks]
    now,     \* Date.now(), in ms
    task,    \* handler invocations in flight: task id -> locals and position
    sched,   \* fixed per run: how many handlers may overlap, their process
    obs      \* observation of what the handlers did (history)

vars == <<users, config, CACHE, now, task, sched, obs>>

\* ------------------------------------------------------------------ bounds
MaxPar == 2      \* handlers in flight at once
MaxOps == 3      \* handler invocations per run

\* --------------------------------------------------------------- constants
NULL == 0        \* JS null / undefined / absent column value

Tasks == 1..MaxPar
Procs == {"p1", "p2"}
Uid == "u1"

Idle == [pc |-> "idle"]
Free(t) == task[t].pc \in {"idle", "done"}
InFlight == {t \in Tasks : ~Free(t)}
Quiet == InFlight = {}
\* A new update can be dispatched (fetch -> ctx.waitUntil(handleUpdate)).
CanStart(t) ==
    /\ Free(t)
    /\ Cardinality(InFlight) < sched.par
    /\ obs.ops < MaxOps

\* Task 1 runs in process p1; the others in either process.
Scheds == [par : 1..MaxPar, proc : {f \in [Tasks -> Procs] : f[1] = "p1"}]

\* ------------------------------------------------------------- users table
EmptyInfo == [f \in {} |-> NULL]
\* getUser's default row (INSERT OR IGNORE ... 'new', '{}').
NewRow ==
    [user_state |-> "new", is_blocked |-> FALSE, block_count |-> 0,
     topic_id |-> NULL, user_info |-> EmptyInfo]

\* u.user_info?.f
Info(u, f) == IF f \in DOMAIN u.user_info THEN u.user_info[f] ELSE NULL

\* { ...cur, ...patch }
mergeUserInfo(cur, patch) ==
    [f \in (DOMAIN cur) \cup (DOMAIN patch) |->
        IF f \in DOMAIN patch THEN patch[f] ELSE cur[f]]

\* UPDATE users SET user_info_json = ? WHERE user_id = ?
WriteInfo(json) == users' = [users EXCEPT ![Uid].user_info = json]

\* ------------------------------------------------- SpecInfo: updUser races
\* The user_info patches the handlers pass to updUser.
Patches ==
    { [card_msg_id |-> 1],                       \* sendInfoCardToTopic
      [last_busy_reply |-> 1],                   \* handleVerifiedMsg
      [last_notify |-> 1],                       \* handleInbox, edit branch
      [last_notify |-> 1, inbox_msg_id |-> 1],   \* handleInbox, new card
      [blacklist_msg_id |-> 1],                  \* manageBlacklist, blocking
      [blacklist_msg_id |-> NULL],               \* manageBlacklist, unblocking
      [note |-> 1] }                             \* handleAdminReply

InitInfo ==
    /\ users = [u \in {Uid} |-> NewRow]
    /\ config = [k \in {} |-> ""]
    /\ CACHE = [p \in Procs |-> [data |-> [k \in {} |-> ""], ts |-> 0, locks |-> [k \in {} |-> 0]]]
    /\ now = 1
    /\ task = [t \in Tasks |-> Idle]
    /\ sched \in Scheds
    /\ obs = [ops |-> 0, patched |-> {}]

\* updUser(id, {user_info: patch}) is entered.
UpdUserBegin(t, patch) ==
    /\ CanStart(t)
    /\ task' = [task EXCEPT ![t] = [pc |-> "merge", patch |-> patch]]
    /\ obs' = [obs EXCEPT !.ops = @ + 1]
    /\ UNCHANGED <<users, config, CACHE, now, sched>>

\* mergeUserInfo: SELECT user_info_json, then spread cur and patch.
UpdUserMerge(t) ==
    /\ task[t].pc = "merge"
    /\ task' = [task EXCEPT ![t] =
          [pc |-> "update", patch |-> task[t].patch,
           json |-> mergeUserInfo(users[Uid].user_info, task[t].patch)]]
    /\ UNCHANGED <<users, config, CACHE, now, sched, obs>>

\* UPDATE users SET user_info_json = <merged>.
UpdUserWrite(t) ==
    /\ task[t].pc = "update"
    /\ WriteInfo(task[t].json)
    /\ task' = [task EXCEPT ![t] = [pc |-> "done"]]
    /\ obs' = [obs EXCEPT !.patched = @ \cup DOMAIN task[t].patch]
    /\ UNCHANGED <<config, CACHE, now, sched>>

NextInfo ==
    \E t \in Tasks :
        \/ \E p \in Patches : UpdUserBegin(t, p)
        \/ UpdUserMerge(t)
        \/ UpdUserWrite(t)

SpecInfo == InitInfo /\ [][NextInfo]_vars

\* C8: once every concurrent updUser call has finished, the stored user_info
\* holds every field some call patched (no write dropped a field it did not
\* name).
C8_NoFieldDropped ==
    Quiet => obs.patched \subseteq DOMAIN users[Uid].user_info

\* ------------------------------------------- SpecCfg: config table and cache
CacheTtl == 60000      \* CACHE.ttl
MaxTicks == 2          \* clock advances per run

NoRows == [k \in {} |-> ""]
NoLocks == [k \in {} |-> 0]
\* DEFAULTS[k] || "" (no environment override is set)
DEFAULTS(k) ==
    CASE k = "busy_mode" -> "false"
      [] k = "enable_verify" -> "true"
      [] k = "welcome_msg" -> "welcome"
      [] OTHER -> ""

Me(t) == sched.proc[t]

\* The clock moves by d ms, at most MaxTicks times from its start value.
Tick(d, start) ==
    /\ now < start + MaxTicks * d
    /\ now' = now + d
    /\ UNCHANGED <<users, config, CACHE, task, sched, obs>>

\* getCfg, lines 167-169: the synchronous cache test; a hit returns at once.
CacheHit(c, k, t0) == c.ts # 0 /\ t0 - c.ts < CacheTtl /\ k \in DOMAIN c.data

GetCfgEnter(t) ==
    /\ task[t].pc = "cfg_enter"
    /\ LET k == task[t].key IN
       IF CacheHit(CACHE[Me(t)], k, now)
       THEN task' = [task EXCEPT ![t].pc = task[t].ret,
                                 ![t].res = CACHE[Me(t)].data[k]]
       ELSE task' = [task EXCEPT ![t].pc = "cfg_select", ![t].now0 = now]
    /\ UNCHANGED <<users, config, CACHE, now, sched, obs>>

\* getCfg, line 171: SELECT * FROM config runs in the store.
GetCfgSelect(t) ==
    /\ task[t].pc = "cfg_select"
    /\ task' = [task EXCEPT ![t].pc = "cfg_fill", ![t].rows = config]
    /\ UNCHANGED <<users, config, CACHE, now, sched, obs>>

\* getCfg, lines 172-181: the rows replace CACHE.data, CACHE.ts becomes the
\* time read on entry, and the value (or its default) is returned.
FillCache(c, rows, t0) == [c EXCEPT !.data = rows, !.ts = t0]

GetCfgFill(t) ==
    /\ task[t].pc = "cfg_fill"
    /\ LET k == task[t].key
           c == FillCache(CACHE[Me(t)], task[t].rows, task[t].now0)
       IN /\ CACHE' = [CACHE EXCEPT ![Me(t)] = c]
          /\ task' = [task EXCEPT
                ![t].pc = task[t].ret,
                ![t].res = IF k \in DOMAIN c.data THEN c.data[k] ELSE DEFAULTS(k)]
    /\ UNCHANGED <<users, config, now, sched, obs>>

\* setCfg, line 186: INSERT OR REPLACE INTO config.
PutRow(rows, k, v) ==
    [x \in (DOMAIN rows) \cup {k} |-> IF x = k THEN v ELSE rows[x]]
\* DELETE FROM config WHERE key = k.
DelRow(rows, k) == [x \in (DOMAIN rows) \ {k} |-> rows[x]]

SetCfgInsert(t) ==
    /\ task[t].pc = "set_insert"
    /\ config' = PutRow(config, task[t].key, task[t].val)
    /\ task' = [task EXCEPT ![t].pc = "set_reset"]
    /\ obs' = [obs EXCEPT !.sets = @ \cup {task[t].key}]
    /\ UNCHANGED <<users, CACHE, now, sched>>

\* setCfg, line 187: CACHE.ts = 0 once the INSERT has returned.
ResetCache(c) == [c EXCEPT !.ts = 0]

SetCfgReset(t) ==
    /\ task[t].pc = "set_reset"
    /\ CACHE' = [CACHE EXCEPT ![Me(t)] = ResetCache(@)]
    /\ task' = [task EXCEPT ![t].pc = task[t].ret, ![t].ret = task[t].ret2]
    /\ UNCHANGED <<users, config, now, sched, obs>>

Call(kind, pc, key, val, ret, ret2) ==
    [kind |-> kind, pc |-> pc, key |-> key, val |-> val, ret |-> ret,
     ret2 |-> ret2, now0 |-> 0, rows |-> NoRows, res |-> ""]

Begin(t, frame) ==
    /\ CanStart(t)
    /\ task' = [task EXCEPT ![t] = frame]
    /\ obs' = [obs EXCEPT !.ops = @ + 1]

\* handleVerifiedMsg, line 503: a user message reads getBool("busy_mode").
ReadBusyMode(t) ==
    /\ Begin(t, Call("read", "cfg_enter", "busy_mode", "", "done", "done"))
    /\ UNCHANGED <<users, config, CACHE, now, sched>>

\* handleAdminConfig, type "toggle" (lines 1194-1196): setCfg(key, val), then
\* the busy menu is rendered from getBool("busy_mode").
ToggleBusyMode(t, v) ==
    /\ Begin(t, Call("toggle", "set_insert", "busy_mode", v, "cfg_enter", "done"))
    /\ UNCHANGED <<users, config, CACHE, now, sched>>

\* handleAdminConfig, type "edit" (lines 1223-1234): the input state is
\* stored under admin_state:<id>, then the prompt is shown.
EditWelcome(t) ==
    /\ Begin(t, Call("edit", "set_insert", "admin_state", "input:welcome_msg",
                     "done", "done"))
    /\ UNCHANGED <<users, config, CACHE, now, sched>>

\* handlePrivate for the primary admin, lines 361-362: the input state is read.
AdminMessage(t, text) ==
    /\ Begin(t, Call("admin_msg", "cfg_enter", "admin_state", text, "admin", "done"))
    /\ UNCHANGED <<users, config, CACHE, now, sched>>

\* handlePrivate lines 363-371 and handleAdminInput lines 1282-1286: with an
\* input state, /cancel deletes it and anything else is the new value;
\* without one the message goes on to the verification gates.
AdminDispatch(t) ==
    /\ task[t].pc = "admin"
    /\ task' = [task EXCEPT ![t] =
          IF task[t].res = "input:welcome_msg"
          THEN IF task[t].val = "/cancel"
               THEN [@ EXCEPT !.pc = "delete"]
               ELSE [@ EXCEPT !.pc = "input"]
          ELSE [@ EXCEPT !.pc = "cfg_enter", !.key = "enable_verify", !.ret = "done"]]
    /\ UNCHANGED <<users, config, CACHE, now, sched, obs>>

\* handleAdminInput, line 1330: setCfg(state.key, text).
AdminInput(t) ==
    /\ task[t].pc = "input"
    /\ task' = [task EXCEPT ![t].pc = "set_insert", ![t].key = "welcome_msg",
                            ![t].ret = "delete"]
    /\ UNCHANGED <<users, config, CACHE, now, sched, obs>>

\* handleAdminInput, lines 1284 and 1331: sql DELETE on the admin_state row;
\* CACHE is not touched.
AdminStateDelete(t) ==
    /\ task[t].pc = "delete"
    /\ config' = DelRow(config, "admin_state")
    /\ task' = [task EXCEPT ![t].pc = "done"]
    /\ UNCHANGED <<users, CACHE, now, sched, obs>>

InitCfg ==
    /\ users = [u \in {Uid} |-> NewRow]
    /\ config \in {NoRows, [busy_mode |-> "false"]}
    /\ CACHE = [p \in Procs |-> [data |-> NoRows, ts |-> 0, locks |-> NoLocks]]
    /\ now = CacheTtl
    /\ task = [t \in Tasks |-> Idle]
    /\ sched \in Scheds
    /\ obs = [ops |-> 0, sets |-> {}]

NextCfg ==
    \/ Tick(CacheTtl \div 2, CacheTtl)
    \/ \E t \in Tasks :
        \/ ReadBusyMode(t)
        \/ ToggleBusyMode(t, "true")
        \/ EditWelcome(t)
        \/ \E text \in {"/cancel", "hello"} : AdminMessage(t, text)
        \/ GetCfgEnter(t)
        \/ GetCfgSelect(t)
        \/ GetCfgFill(t)
        \/ SetCfgInsert(t)
        \/ SetCfgReset(t)
        \/ AdminDispatch(t)
        \/ AdminInput(t)
        \/ AdminStateDelete(t)

SpecCfg == InitCfg /\ [][NextCfg]_vars

OneProc == \A t \in Tasks : sched.proc[t] = sched.proc[1]

\* C9: the getCfg(k) that follows a completed setCfg(k, v) in the same
\* handler (hence the same process) returns v; here k is busy_mode and v is
\* the toggled value, which is the only value written in the run.
C9_ReadReturnsWritten ==
    \A t \in Tasks :
        (task[t].pc = "done" /\ task[t].kind = "toggle") => task[t].res = task[t].val

\* C10: once the admin_state row is gone from the store (after /cancel or a
\* consumed input), a later private message of the admin, handled with no
\* other handler in flight, is not taken as a configuration value.
C10_NoInputAfterStateGone ==
    \A t \in Tasks :
        (sched.par = 1 /\ OneProc /\ task[t].pc = "input")
            => "admin_state" \in DOMAIN config

\* ------------------------- SpecBlock: blocking, accrual, /start self-unblock
MaxThreshold == 2      \* largest configured block_threshold

States == {"new", "pending_turnstile", "pending_verification", "verified"}

\* getCfg as the store answers it (the cache is the subject of SpecCfg).
Cfg(k) == IF k \in DOMAIN config THEN config[k] ELSE DEFAULTS(k)
getBool(k) == Cfg(k) = "true"
\* parseInt(await getCfg("block_threshold"), 10) || 5
Threshold == IF Cfg("block_threshold") = 0 THEN 5 ELSE Cfg("block_threshold")

Row == users[Uid]
\* UPDATE users SET ... WHERE user_id = ?  (one statement, one step). A
\* user_info patch is merged here in the same step; the gap between
\* mergeUserInfo's read and the write is the subject of SpecInfo.
WriteRow(r) == users' = [users EXCEPT ![Uid] = r]

Frame(kind, pc, ret) ==
    [kind |-> kind, pc |-> pc, ret |-> ret, u |-> NewRow, tid |-> NULL,
     called |-> FALSE, failed |-> FALSE]

\* What is kept of a finished handler: its kind, whether the row it read
\* was blocked, whether it called the chat API, whether a call of it failed.
Fin(r) ==
    [pc |-> "done", kind |-> r.kind, blk |-> r.u.is_blocked,
     called |-> r.called, failed |-> r.failed]
Step(t, r) == task' = [task EXCEPT ![t] = IF r.pc = "done" THEN Fin(r) ELSE r]

\* A new handler takes the lowest free slot (the slots are interchangeable).
BeginB(t, frame) ==
    /\ CanStart(t)
    /\ \A s \in Tasks : s < t => ~Free(s)
    /\ Step(t, frame)
    /\ obs' = [obs EXCEPT !.ops = @ + 1, !.pure = @ /\ frame.kind \in {"kw", "text"}
                                     /\ Row.user_state = "verified"]

\* handleUpdate -> handlePrivate for a message of an ordinary user:
\* kind "start" is a /start command, kind "kw" a text that hits a block
\* keyword, kind "text" a plain text that hits none (none of them the QA
\* answer), kind "answer" the QA answer (no block keyword in it).
PrivateMessage(t, kind) ==
    /\ BeginB(t, Frame(kind, "p_get", "s_get"))
    /\ UNCHANGED <<users, config, CACHE, now, sched>>

\* sendStart, lines 429-451: the state /start gives under the gate settings.
StartState ==
    IF getBool("enable_verify") /\ sched.url THEN "pending_turnstile"
    ELSE IF getBool("enable_qa_verify") THEN "pending_verification"
    ELSE "verified"

\* handlePrivate, lines 343-380: getUser, the blocked test, the gates.
PrivateRoute(u, kind) ==
    IF u.is_blocked THEN (IF kind = "start" THEN "unblock" ELSE "done")
    ELSE IF u.user_state # "verified"
            /\ (getBool("enable_verify") \/ getBool("enable_qa_verify"))
         THEN (IF u.user_state = "pending_verification"
               THEN (IF kind = "answer" THEN "va_state" ELSE "wrong")
               ELSE "s_get")
    ELSE IF kind = "start" THEN "s_get"
    ELSE IF kind = "kw" THEN "accrue"
    ELSE "r_lock"

PrivateGetUser(t) ==
    /\ task[t].pc = "p_get"
    /\ LET to == PrivateRoute(Row, task[t].kind) IN
       Step(t, [task[t] EXCEPT
          !.u = Row,
          \* verifyAnswer with a wrong answer: sendMessage "error", line 930
          !.pc = IF to = "wrong" THEN "done" ELSE to,
          !.called = (to = "wrong")])
    /\ UNCHANGED <<users, config, CACHE, now, sched, obs>>

\* handlePrivate, line 348: updUser(id, {is_blocked: 0, block_count: 0}).
PrivateUnblock(t) ==
    /\ task[t].pc = "unblock"
    /\ WriteRow([Row EXCEPT !.is_blocked = FALSE, !.block_count = 0])
    /\ Step(t, [task[t] EXCEPT !.pc = "bl_off"])
    /\ UNCHANGED <<config, CACHE, now, sched, obs>>

\* manageBlacklist(env, u, tgUser, false), lines 719-729 and 742-748: with a
\* blacklist topic configured and a card id in the caller's user object, the
\* card is deleted and the id cleared.
BlacklistOff(t) ==
    /\ task[t].pc = "bl_off"
    /\ LET mid == Info(task[t].u, "blacklist_msg_id")
           del == Cfg("blocked_topic_id") # "" /\ mid # NULL
       IN /\ IF del
             THEN /\ WriteRow([Row EXCEPT !.user_info =
                        mergeUserInfo(@, [blacklist_msg_id |-> NULL])])
                  /\ obs' = [obs EXCEPT !.cards = @ \ {mid}]
             ELSE UNCHANGED <<users, obs>>
          /\ Step(t, [task[t] EXCEPT !.pc = task[t].ret,
                                  !.called = @ \/ del])
    /\ UNCHANGED <<config, CACHE, now, sched>>

\* The log of messages the chat API delivered to the user, by kind, in the
\* specifications that keep one (obs.sent).
Sent(kind) ==
    IF "sent" \in DOMAIN obs THEN [obs EXCEPT !.sent[kind] = @ + 1] ELSE obs

\* sendStart, lines 384-425: getUser; a verified user with a topic only gets
\* the info card refreshed, anyone else the welcome message (a failing
\* sendMessage throws and ends the handler).
SendStartGet(t) ==
    /\ task[t].pc = "s_get"
    /\ \E ok \in BOOLEAN :
         LET short == Row.topic_id # NULL /\ Row.user_state = "verified" IN
         /\ Step(t, [task[t] EXCEPT
               !.called = TRUE,
               !.failed = ~ok,
               !.pc = IF ~ok THEN "done"
                         ELSE IF short THEN "s_card" ELSE "s_state"])
         /\ obs' = IF ~ok THEN Sent("error")
                   ELSE IF short THEN obs ELSE Sent("welcome")
    /\ UNCHANGED <<users, config, CACHE, now, sched>>

\* sendInfoCardToTopic, line 636: the new card's message id is recorded.
SendStartCard(t) ==
    /\ task[t].pc = "s_card"
    /\ WriteRow([Row EXCEPT !.user_info =
                    mergeUserInfo(@, [card_msg_id |-> 1])])
    /\ Step(t, [task[t] EXCEPT !.pc = "done"])
    /\ UNCHANGED <<config, CACHE, now, sched, obs>>

\* sendStart, lines 432-451: updUser(id, {user_state: ...}), then the
\* verification button (or the question) is sent, not awaited.
SendStartState(t) ==
    /\ task[t].pc = "s_state"
    /\ WriteRow([Row EXCEPT !.user_state = StartState])
    /\ Step(t, [task[t] EXCEPT !.pc = "done"])
    /\ obs' = IF StartState = "verified" THEN obs ELSE Sent("prompt")
    /\ UNCHANGED <<config, CACHE, now, sched>>

\* A variant of lines 465-467 that blocks only above the threshold.
AccrueOffByOne(r, u, max) ==
    [r EXCEPT !.block_count = u.block_count + 1,
              !.is_blocked = u.block_count + 1 > max]
\* A variant of lines 465-467 that writes the count alone.
AccrueCountOnly(r, u, max) ==
    [r EXCEPT !.block_count = u.block_count + 1]
\* handleVerifiedMsg, lines 465-467: c = u.block_count + 1 and
\* updUser(id, {block_count: c, is_blocked: c >= max}), from the handler's
\* own copy u of the row.
AccrueRow(r, u, max) ==
    [r EXCEPT !.block_count = u.block_count + 1,
              !.is_blocked = u.block_count + 1 >= max]

Accrue(t) ==
    /\ task[t].pc = "accrue"
    /\ WriteRow(AccrueRow(Row, task[t].u, Threshold))
    /\ Step(t, [task[t] EXCEPT
          !.called = TRUE,   \* "auto-banned" or the (c/max) warning
          !.pc = IF task[t].u.block_count + 1 >= Threshold
                    THEN "bl_on" ELSE "done",
          !.ret = "done"])
    /\ UNCHANGED <<config, CACHE, now, sched, obs>>

\* manageBlacklist(env, u, tgUser, true), lines 719-729: the blacklist topic
\* is read from the configuration.
BlacklistOn(t) ==
    /\ task[t].pc = "bl_on"
    /\ Step(t, [task[t] EXCEPT
          !.pc = IF Cfg("blocked_topic_id") = "" THEN "bl_topic" ELSE "bl_card"])
    /\ UNCHANGED <<users, config, CACHE, now, sched, obs>>

\* lines 721-727: createForumTopic and setCfg("blocked_topic_id"); a failing
\* call ends manageBlacklist. The topics created are counted in the
\* specifications that keep the count (obs.blTopics).
BlacklistTopic(t) ==
    /\ task[t].pc = "bl_topic"
    /\ \E ok \in BOOLEAN :
         /\ config' = IF ok THEN PutRow(config, "blocked_topic_id", "topic")
                      ELSE config
         /\ Step(t, [task[t] EXCEPT !.called = TRUE,
                                 !.pc = IF ok THEN "bl_card" ELSE task[t].ret])
         /\ obs' = IF ok /\ "blTopics" \in DOMAIN obs
                   THEN [obs EXCEPT !.blTopics = @ + 1] ELSE obs
    /\ UNCHANGED <<users, CACHE, now, sched>>

\* lines 733-741: the card is posted and, when that worked, its id recorded.
BlacklistCard(t) ==
    /\ task[t].pc = "bl_card"
    /\ \E ok \in BOOLEAN :
         IF ok
         THEN /\ WriteRow([Row EXCEPT !.user_info =
                     mergeUserInfo(@, [blacklist_msg_id |-> obs.posted + 1])])
              /\ obs' = [obs EXCEPT !.cards = @ \cup {obs.posted + 1},
                                     !.posted = @ + 1]
         ELSE UNCHANGED <<users, obs>>
    /\ Step(t, [task[t] EXCEPT !.called = TRUE, !.pc = task[t].ret])
    /\ UNCHANGED <<config, CACHE, now, sched>>

\* handleEdit, lines 1107-1116: an edited private message is announced in
\* the user's topic when there is one.
HandleEdit(t) ==
    /\ BeginB(t, [Frame("edit", "done", "done") EXCEPT
                      !.u = Row, !.called = Row.topic_id # NULL])
    /\ UNCHANGED <<users, config, CACHE, now, sched>>

\* handleCallback, lines 1019-1022: a block: or unblock: button is pressed.
BlockCallback(t, isB) ==
    /\ BeginB(t, Frame(IF isB THEN "block" ELSE "unblock", "cb_get", "done"))
    /\ UNCHANGED <<users, config, CACHE, now, sched>>

CallbackGetUser(t) ==
    /\ task[t].pc = "cb_get"
    /\ Step(t, [task[t] EXCEPT !.u = Row, !.pc = "cb_write"])
    /\ UNCHANGED <<users, config, CACHE, now, sched, obs>>

\* A variant of line 1024 that sends an unblocked user back to admission.
CallbackWriteResets(t) ==
    /\ task[t].pc = "cb_write"
    /\ WriteRow([Row EXCEPT !.is_blocked = (task[t].kind = "block"),
                            !.block_count = 0,
                            !.user_state = IF task[t].kind = "block" THEN @ ELSE "new"])
    /\ Step(t, [task[t] EXCEPT
          !.pc = IF task[t].kind = "block" THEN "bl_on" ELSE "bl_off"])
    /\ UNCHANGED <<config, CACHE, now, sched, obs>>

\* line 1024: updUser(uid, {is_blocked: isB, block_count: 0}).
CallbackWrite(t) ==
    /\ task[t].pc = "cb_write"
    /\ WriteRow([Row EXCEPT !.is_blocked = (task[t].kind = "block"),
                            !.block_count = 0])
    /\ Step(t, [task[t] EXCEPT
          !.pc = IF task[t].kind = "block" THEN "bl_on" ELSE "bl_off"])
    /\ UNCHANGED <<config, CACHE, now, sched, obs>>

\* handleAdminConfig, type "cl" (line 1203): "reset blacklist" in the menu.
ClearBlacklistTopic(t) ==
    /\ BeginB(t, Frame("clear", "done", "done"))
    /\ config' = PutRow(config, "blocked_topic_id", "")
    /\ UNCHANGED <<users, CACHE, now, sched>>

InitBlock ==
    /\ \E s \in States, tid \in {NULL, 1} :
          /\ tid # NULL => s = "verified"
          /\ users = [u \in {Uid} |-> [NewRow EXCEPT !.user_state = s, !.topic_id = tid]]
    /\ \E v, q \in {"true", "false"}, max \in 1..MaxThreshold :
          config = [enable_verify |-> v, enable_qa_verify |-> q, block_threshold |-> max]
    /\ CACHE = [p \in Procs |-> [data |-> NoRows, ts |-> 0, locks |-> NoLocks]]
    /\ now = CacheTtl
    /\ task = [t \in Tasks |-> Idle]
    /\ \E par \in 1..MaxPar, url \in BOOLEAN :
          sched = [par |-> par, proc |-> [t \in Tasks |-> "p1"], url |-> url]
    /\ obs = [ops |-> 0, pure |-> TRUE, cards |-> {}, posted |-> 0]

NextBlock ==
    \E t \in Tasks :
        \/ \E kind \in {"start", "kw"} : PrivateMessage(t, kind)
        \/ HandleEdit(t)
        \/ \E isB \in BOOLEAN : BlockCallback(t, isB)
        \/ ClearBlacklistTopic(t)
        \/ PrivateGetUser(t)
        \/ PrivateUnblock(t)
        \/ BlacklistOff(t)
        \/ SendStartGet(t)
        \/ SendStartCard(t)
        \/ SendStartState(t)
        \/ Accrue(t)
        \/ BlacklistOn(t)
        \/ BlacklistTopic(t)
        \/ BlacklistCard(t)
        \/ CallbackGetUser(t)
        \/ CallbackWrite(t)

SpecBlock == InitBlock /\ [][NextBlock]_vars

\* The same handlers, dispatched one after another (no two in flight).
InitBlockSeq == InitBlock /\ sched.par = 1
SpecBlockSeq == InitBlockSeq /\ [][NextBlock]_vars

Finished(t) == task[t].pc = "done"

\* C4: a handler of an update that is not /start (a new private message or an
\* edit of an earlier one) and that read is_blocked = true from the store
\* makes no chat API call.
C4_BlockedNoApiCall ==
    \A t \in Tasks :
        (Finished(t) /\ task[t].kind \in {"kw", "edit"} /\ task[t].blk)
            => ~task[t].called

\* C5: when /start from a blocked user has been handled (no chat API call
\* failing), is_blocked is false, block_count is 0, the blacklist card is
\* deleted and its recorded id cleared, and user_state is the state /start
\* gives a new user under the gate settings.
C5_StartResetsBlockedUser ==
    \A t \in Tasks :
        (Finished(t) /\ task[t].kind = "start" /\ task[t].blk /\ ~task[t].failed)
            => /\ ~Row.is_blocked
               /\ Row.block_count = 0
               /\ Info(Row, "blacklist_msg_id") = NULL
               /\ obs.cards = {}
               /\ Row.user_state = StartState

\* C6: after N keyword-hitting messages of a verified user, handled one after
\* another from block_count 0 with threshold T, the user is blocked iff
\* N >= T, block_count is min(N, T) (T from the blocking message on), a single
\* blacklist card was posted, and a message after the blocking one did
\* nothing (no write, no chat API call).
C6_AccrualBlocksAtThreshold ==
    (obs.pure /\ Quiet /\ Row.user_state = "verified") =>
        LET N == obs.ops
            T == Threshold
        IN /\ Row.is_blocked <=> N >= T
           /\ Row.block_count = IF N < T THEN N ELSE T
           /\ obs.posted <= 1
           /\ N > T => \A t \in Tasks : Finished(t) => ~task[t].called

C6_Witness ==
    /\ obs.pure /\ Quiet /\ Row.user_state = "verified"
    /\ Threshold = MaxThreshold
    /\ obs.ops > Threshold
    /\ Row.is_blocked /\ Row.block_count = Threshold

\* C7: every step that leaves the stored block_count at the threshold or
\* above leaves is_blocked true as well: the write that raises the count to
\* the threshold is the write that blocks.
C7_BlockedWithThresholdWrite ==
    [][Row'.block_count >= Threshold => Row'.is_blocked]_vars

C7_Witness ==
    \E t \in Tasks :
        /\ task[t].pc = "bl_on" /\ task[t].kind = "kw"
        /\ Threshold = MaxThreshold
        /\ Row.block_count = Threshold /\ Row.is_blocked

\* C11: verified is sticky: no step takes the stored user_state from
\* verified to another value.
C11_VerifiedIsSticky ==
    [][Row.user_state = "verified" => Row'.user_state = "verified"]_vars

\* C12: /start from a user read in state new (not blocked), once its state
\* write is done, leaves pending_turnstile when enable_verify is true, else
\* pending_verification when enable_qa_verify is true, else verified.
C12_StartFromNewFollowsGates ==
    [][\A t \in Tasks :
          (/\ task[t].pc = "s_state" /\ task[t].kind = "start"
           /\ task[t].u.user_state = "new" /\ ~task[t].u.is_blocked
           /\ task'[t].pc = "done")
          => Row'.user_state =
                IF getBool("enable_verify") THEN "pending_turnstile"
                ELSE IF getBool("enable_qa_verify") THEN "pending_verification"
                ELSE "verified"]_vars

\* C13: handleVerifiedMsg (the policy pipeline, then the relay) is entered
\* for a private message only if the row the handler read from the store
\* is verified and not blocked.
C13_PipelineOnlyForVerified ==
    \A t \in Tasks :
        (task[t].pc \in {"accrue", "r_lock"} /\ task[t].kind \in {"kw", "text"})
            => task[t].u.user_state = "verified" /\ ~task[t].u.is_blocked

\* ------------------------------- SpecStart: /start from a user in state new
NoneSent == [k \in {"welcome", "prompt", "error"} |-> 0]

InitStart ==
    /\ users = [u \in {Uid} |-> NewRow]
    /\ \E v, q \in {"true", "false"} :
          config = [enable_verify |-> v, enable_qa_verify |-> q]
    /\ CACHE = [p \in Procs |-> [data |-> NoRows, ts |-> 0, locks |-> NoLocks]]
    /\ now = CacheTtl
    /\ task = [t \in Tasks |-> Idle]
    /\ \E par \in 1..MaxPar, url \in BOOLEAN :
          sched = [par |-> par, proc |-> [t \in Tasks |-> "p1"], url |-> url]
    /\ obs = [ops |-> 0, pure |-> TRUE, sent |-> NoneSent]

NextStart ==
    \E t \in Tasks :
        \/ PrivateMessage(t, "start")
        \/ PrivateGetUser(t)
        \/ SendStartGet(t)
        \/ SendStartState(t)

SpecStart == InitStart /\ [][NextStart]_vars

\* C14: with the captcha gate on, once two /start commands of a user who
\* began in state new are handled and no chat API call failed, the row is in
\* state pending_turnstile and the user got exactly one welcome message and
\* one verification-button message.
C14_StartTwiceOnePromptPair ==
    (/\ Quiet /\ obs.ops = 2 /\ obs.sent["error"] = 0
     /\ getBool("enable_verify") /\ sched.url)
        => /\ Row.user_state = "pending_turnstile"
           /\ obs.sent["welcome"] = 1
           /\ obs.sent["prompt"] = 1

\* ---------------- SpecTopic: the user's topic, its creation and its loss
LockTtl == 5000        \* lockSet(lockKey, 5000)
LockKey == "topic_create"      \* `topic_create:${uid}`

\* lockHas: an entry that has not expired (an expired one is dropped; the
\* only caller here overwrites it at once with lockSet).
lockHas(c, k, t0) == k \in DOMAIN c.locks /\ c.locks[k] > t0
lockSet(c, k, ttlMs, t0) == [c EXCEPT !.locks = PutRow(@, k, t0 + ttlMs)]
lockDel(c, k) == [c EXCEPT !.locks = DelRow(@, k)]

\* The id createForumTopic answers with: a new one each time.
NewTopic == obs.created + 2

\* relayToTopic, lines 539-549: from the entry to the first await. The
\* caller's user object u was read earlier (handlePrivate, verifyAnswer).
RelayEnter(t) ==
    /\ task[t].pc = "r_lock"
    /\ LET c == CACHE[Me(t)]
           tid == task[t].u.topic_id
       IN IF tid # NULL
          THEN /\ Step(t, [task[t] EXCEPT !.tid = tid, !.pc = "r_forward"])
               /\ UNCHANGED CACHE
          ELSE IF lockHas(c, LockKey, now)
          THEN /\ Step(t, [task[t] EXCEPT !.pc = "done"])
               /\ UNCHANGED CACHE
          ELSE /\ Step(t, [task[t] EXCEPT !.pc = "r_reread"])
               /\ CACHE' = [CACHE EXCEPT
                                ![Me(t)] = lockSet(c, LockKey, LockTtl, now)]
    /\ UNCHANGED <<users, config, now, sched, obs>>

\* relayToTopic, lines 550-552 and 567-569: the re-read under the lock.
RelayReread(t) ==
    /\ task[t].pc = "r_reread"
    /\ IF Row.topic_id # NULL
       THEN /\ Step(t, [task[t] EXCEPT !.tid = Row.topic_id, !.pc = "r_forward"])
            /\ CACHE' = [CACHE EXCEPT ![Me(t)] = lockDel(@, LockKey)]
       ELSE /\ Step(t, [task[t] EXCEPT !.pc = "r_create"])
            /\ UNCHANGED CACHE
    /\ UNCHANGED <<users, config, now, sched, obs>>

\* relayToTopic, lines 554-555: createForumTopic answers or throws.
RelayCreate(t) ==
    /\ task[t].pc = "r_create"
    /\ \E ok \in BOOLEAN :
         IF ok
         THEN /\ obs' = [obs EXCEPT !.created = @ + 1]
              /\ Step(t, [task[t] EXCEPT !.tid = NewTopic, !.called = TRUE,
                                      !.pc = "r_persist"])
         ELSE /\ UNCHANGED obs
              /\ Step(t, [task[t] EXCEPT !.called = TRUE, !.failed = TRUE,
                                      !.pc = "r_catch"])
    /\ UNCHANGED <<users, config, CACHE, now, sched>>

\* relayToTopic, lines 556-557: updUser(uid, {topic_id: tid}).
RelayPersist(t) ==
    /\ task[t].pc = "r_persist"
    /\ WriteRow([Row EXCEPT !.topic_id = task[t].tid])
    /\ Step(t, [task[t] EXCEPT !.u.topic_id = task[t].tid, !.pc = "r_card"])
    /\ UNCHANGED <<config, CACHE, now, sched, obs>>

\* sendInfoCardToTopic (it swallows its own failures), then the finally
\* clause: lockDel.
RelayCard(t) ==
    /\ task[t].pc = "r_card"
    /\ \E ok \in BOOLEAN :
         IF ok
         THEN WriteRow([Row EXCEPT !.user_info =
                           mergeUserInfo(@, [card_msg_id |-> 1])])
         ELSE UNCHANGED users
    /\ CACHE' = [CACHE EXCEPT ![Me(t)] = lockDel(@, LockKey)]
    /\ Step(t, [task[t] EXCEPT !.pc = "r_forward"])
    /\ UNCHANGED <<config, now, sched, obs>>

\* relayToTopic, lines 562-569: the catch clause, then lockDel.
RelayCatch(t) ==
    /\ task[t].pc = "r_catch"
    /\ Step(t, [task[t] EXCEPT
          !.tid = Row.topic_id,
          !.pc = IF Row.topic_id # NULL THEN "r_forward" ELSE "done"])
    /\ CACHE' = [CACHE EXCEPT ![Me(t)] = lockDel(@, LockKey)]
    /\ UNCHANGED <<users, config, now, sched, obs>>

\* relayToTopic, lines 575-605: forwardMessage, else copyMessage; the copy
\* can fail with a "thread ... not found" error (the topic is lost). What
\* follows a successful relay (delivery mark, message log, inbox card,
\* backup) writes user_info and config keys only.
RelayForward(t) ==
    /\ task[t].pc = "r_forward"
    /\ \E out \in {"ok", "fail", "lost"} :
         Step(t, [task[t] EXCEPT
            !.called = TRUE,
            !.failed = @ \/ out # "ok",
            !.pc = IF out = "lost" THEN "r_null" ELSE "done"])
    /\ UNCHANGED <<users, config, CACHE, now, sched, obs>>

\* relayToTopic, line 601: updUser(uid, {topic_id: null}).
RelayNull(t) ==
    /\ task[t].pc = "r_null"
    /\ WriteRow([Row EXCEPT !.topic_id = NULL])
    /\ obs' = [obs EXCEPT !.nulled = @ + 1]
    /\ Step(t, [task[t] EXCEPT !.pc = "done"])
    /\ UNCHANGED <<config, CACHE, now, sched>>

\* verifyAnswer, line 925: the answer matches, updUser(id, "verified").
VerifyAnswerState(t) ==
    /\ task[t].pc = "va_state"
    /\ WriteRow([Row EXCEPT !.user_state = "verified"])
    /\ Step(t, [task[t] EXCEPT !.pc = "va_get"])
    /\ UNCHANGED <<config, CACHE, now, sched, obs>>

\* verifyAnswer, lines 926-928: sendMessage, getUser, relayToTopic(msg, u).
VerifyAnswerGet(t) ==
    /\ task[t].pc = "va_get"
    /\ \E ok \in BOOLEAN :
         Step(t, [task[t] EXCEPT
            !.called = TRUE, !.failed = ~ok, !.u = Row,
            !.pc = IF ok THEN "r_lock" ELSE "done"])
    /\ UNCHANGED <<users, config, CACHE, now, sched, obs>>

\* handleTokenSubmit, lines 798-825: a request whose token the captcha
\* service accepts and whose initData is signed for the user.
TokenSubmit(t) ==
    /\ BeginB(t, Frame("token", "ts_state", "done"))
    /\ UNCHANGED <<users, config, CACHE, now, sched>>

\* handleTokenSubmit, lines 826-835: the state write.
TokenState(t) ==
    /\ task[t].pc = "ts_state"
    /\ LET qaOn == getBool("enable_qa_verify") IN
       /\ WriteRow([Row EXCEPT !.user_state =
             IF qaOn THEN "pending_verification" ELSE "verified"])
       /\ Step(t, [task[t] EXCEPT !.called = qaOn,
                               !.pc = IF qaOn THEN "done" ELSE "ts_get"])
    /\ UNCHANGED <<config, CACHE, now, sched, obs>>

\* handleTokenSubmit, lines 836-840: sendMessage, getUser, the topic test.
TokenGet(t) ==
    /\ task[t].pc = "ts_get"
    /\ \E ok \in BOOLEAN :
         Step(t, [task[t] EXCEPT
            !.called = TRUE, !.failed = ~ok, !.u = Row,
            !.pc = IF ~ok \/ Row.topic_id # NULL THEN "done" ELSE "ts_create"])
    /\ UNCHANGED <<users, config, CACHE, now, sched, obs>>

\* handleTokenSubmit, lines 841-843: createForumTopic answers or throws.
TokenCreate(t) ==
    /\ task[t].pc = "ts_create"
    /\ \E ok \in BOOLEAN :
         IF ok
         THEN /\ obs' = [obs EXCEPT !.created = @ + 1]
              /\ Step(t, [task[t] EXCEPT !.tid = NewTopic, !.pc = "ts_persist"])
         ELSE /\ UNCHANGED obs
              /\ Step(t, [task[t] EXCEPT !.failed = TRUE, !.pc = "done"])
    /\ UNCHANGED <<users, config, CACHE, now, sched>>

\* handleTokenSubmit, lines 844-845: updUser(userId, {topic_id: tid}).
TokenPersist(t) ==
    /\ task[t].pc = "ts_persist"
    /\ WriteRow([Row EXCEPT !.topic_id = task[t].tid])
    /\ Step(t, [task[t] EXCEPT !.u.topic_id = task[t].tid, !.pc = "ts_card"])
    /\ UNCHANGED <<config, CACHE, now, sched, obs>>

\* handleTokenSubmit, line 846: sendInfoCardToTopic.
TokenCard(t) ==
    /\ task[t].pc = "ts_card"
    /\ \E ok \in BOOLEAN :
         IF ok
         THEN WriteRow([Row EXCEPT !.user_info =
                           mergeUserInfo(@, [card_msg_id |-> 1])])
         ELSE UNCHANGED users
    /\ Step(t, [task[t] EXCEPT !.pc = "done"])
    /\ UNCHANGED <<config, CACHE, now, sched, obs>>

\* A user past /start, with a topic only if verified; the captcha gate on
\* and its page URL set; one or two processes, their lock maps empty.
InitTopic ==
    /\ \E s \in States \ {"new"}, tid \in {NULL, 1} :
          /\ tid # NULL => s = "verified"
          /\ users = [u \in {Uid} |-> [NewRow EXCEPT !.user_state = s, !.topic_id = tid]]
    /\ \E q \in {"true", "false"} :
          config = [enable_verify |-> "true", enable_qa_verify |-> q]
    /\ CACHE = [p \in Procs |-> [data |-> NoRows, ts |-> 0, locks |-> NoLocks]]
    /\ now = CacheTtl
    /\ task = [t \in Tasks |-> Idle]
    /\ \E s \in Scheds :
          /\ s.par = 1 => \A t \in Tasks : s.proc[t] = "p1"
          /\ sched = [par |-> s.par, proc |-> s.proc, url |-> TRUE]
    /\ obs = [ops |-> 0, pure |-> TRUE, created |-> 0, nulled |-> 0]

NextTopic ==
    \/ Tick(LockTtl \div 2, CacheTtl)
    \/ \E t \in Tasks :
        \/ \E kind \in {"text", "answer"} : PrivateMessage(t, kind)
        \/ TokenSubmit(t)
        \/ PrivateGetUser(t)
        \/ SendStartGet(t)
        \/ SendStartCard(t)
        \/ SendStartState(t)
        \/ VerifyAnswerState(t)
        \/ VerifyAnswerGet(t)
        \/ RelayEnter(t)
        \/ RelayReread(t)
        \/ RelayCreate(t)
        \/ RelayPersist(t)
        \/ RelayCard(t)
        \/ RelayCatch(t)
        \/ RelayForward(t)
        \/ RelayNull(t)
        \/ TokenState(t)
        \/ TokenGet(t)
        \/ TokenCreate(t)
        \/ TokenPersist(t)
        \/ TokenCard(t)

SpecTopic == InitTopic /\ [][NextTopic]_vars

\* C1: two relayToTopic invocations in one process for a verified user
\* without a topic, however long the chat API calls take, create the user's
\* topic at most once (no topic having been lost).
C1_OneTopicInOneProcess ==
    (OneProc /\ obs.pure /\ obs.nulled = 0) => obs.created <= 1

\* C2: createForumTopic for the user is called only while the stored
\* topic_id is null, whichever of handleTokenSubmit, verifyAnswer and
\* relayToTopic calls it and however they interleave.
C2_CreateOnlyWhenNoTopicStored ==
    [][obs'.created > obs.created => Row.topic_id = NULL]_vars

\* C3: two relayToTopic invocations in different processes, each with its
\* own lock map, create the user's topic at most once (no topic having been
\* lost).
C3_OneTopicAcrossProcesses ==
    (~OneProc /\ obs.pure /\ obs.nulled = 0) => obs.created <= 1

\* ---------------------------------------- SpecSubmit: POST /submit_token
MaxAgeSec == 600       \* verifyTelegramInitData(initData, env.BOT_TOKEN, 600)

Ids == {"u1", "u2"}
NoUser == ""
BOT_TOKEN == "bot"

\* The auth_date parameter as the query string carries it: absent, a text
\* without leading digits, or a decimal number.
NoDate == [txt |-> "", n |-> 0]
DateOf(n) == [txt |-> "num", n |-> n]
\* parseInt(authDateStr, 10)
parseInt(str) ==
    IF str.txt = "num" THEN [nan |-> FALSE, n |-> str.n] ELSE [nan |-> TRUE, n |-> 0]

\* hex(HMAC_SHA256(HMAC_SHA256("WebAppData", botToken), dataCheckString)),
\* the data check string being the sorted pairs other than hash: a value
\* that names its key and its data, equal only for equal key and data.
hmacSha256(botToken, authDate, user) ==
    [key |-> botToken, auth_date |-> authDate, user |-> user]
NoSig == [key |-> "", auth_date |-> NoDate, user |-> NoUser]

Thrown(msg) == [err |-> msg, userId |-> NoUser, authDate |-> 0]

\* A variant of line 886 that accepts whatever hash is present.
verifyWithoutHash(initData, botToken, maxAgeSec) ==
    LET authDate == parseInt(initData.auth_date)
        nowSec == now \div 1000
    IN IF initData.hash = NoSig THEN Thrown("initData missing hash")
       ELSE IF authDate.nan \/ authDate.n = 0 THEN Thrown("initData missing auth_date")
       ELSE IF maxAgeSec # 0 /\ nowSec - authDate.n > maxAgeSec
            THEN Thrown("initData expired")
       ELSE [err |-> "", userId |-> initData.user, authDate |-> authDate.n]

\* A variant of line 870 that compares the age with >=.
verifyAgeInclusive(initData, botToken, maxAgeSec) ==
    LET authDate == parseInt(initData.auth_date)
        nowSec == now \div 1000
    IN IF initData.hash = NoSig THEN Thrown("initData missing hash")
       ELSE IF authDate.nan \/ authDate.n = 0 THEN Thrown("initData missing auth_date")
       ELSE IF maxAgeSec # 0 /\ nowSec - authDate.n >= maxAgeSec
            THEN Thrown("initData expired")
       ELSE IF initData.hash # hmacSha256(botToken, initData.auth_date, initData.user)
            THEN Thrown("initData hash mismatch")
       ELSE [err |-> "", userId |-> initData.user, authDate |-> authDate.n]

\* verifyTelegramInitData, lines 860-898, at the current clock.
verifyTelegramInitData(initData, botToken, maxAgeSec) ==
    LET authDate == parseInt(initData.auth_date)
        nowSec == now \div 1000
    IN IF initData.hash = NoSig THEN Thrown("initData missing hash")
       ELSE IF authDate.nan \/ authDate.n = 0 THEN Thrown("initData missing auth_date")
       ELSE IF maxAgeSec # 0 /\ nowSec - authDate.n > maxAgeSec
            THEN Thrown("initData expired")
       ELSE IF initData.hash # hmacSha256(botToken, initData.auth_date, initData.user)
            THEN Thrown("initData hash mismatch")
       ELSE [err |-> "", userId |-> initData.user, authDate |-> authDate.n]

\* A variant of line 823 that prefers the body's userId.
SubmitCheckBody(req) ==
    IF req.initData.empty THEN Thrown("Missing initData")
    ELSE LET parsed == verifyTelegramInitData(req.initData, BOT_TOKEN, MaxAgeSec) IN
         IF parsed.err # "" THEN parsed
         ELSE IF req.userId # NoUser THEN [parsed EXCEPT !.userId = req.userId]
         ELSE IF parsed.userId = NoUser THEN Thrown("No user in initData")
         ELSE parsed

\* handleTokenSubmit, lines 820-824: what the initData of the body yields.
SubmitCheck(req) ==
    IF req.initData.empty THEN Thrown("Missing initData")
    ELSE LET parsed == verifyTelegramInitData(req.initData, BOT_TOKEN, MaxAgeSec) IN
         IF parsed.err # "" THEN parsed
         ELSE IF parsed.userId = NoUser THEN Thrown("No user in initData")
         ELSE parsed

\* The clock the run starts at, and the auth_date values around the limit.
SubmitStart == 2 * MaxAgeSec * 1000
AuthDates ==
    {NoDate, [txt |-> "abc", n |-> 0], DateOf(0)}
        \cup {DateOf((SubmitStart \div 1000) - MaxAgeSec + d) : d \in {-1, 0, 1}}

\* The hashes a body can carry: none, the bot's signature of the fields, a
\* signature under another key, the bot's signature of fields that differ
\* in the user or in the auth_date (the one of the latest second).
Hashes(a, u) ==
    {NoSig, hmacSha256(BOT_TOKEN, a, u), hmacSha256("other", a, u)}
        \cup {hmacSha256(BOT_TOKEN, a, u2) : u2 \in Ids}
        \cup {hmacSha256(BOT_TOKEN, DateOf((SubmitStart \div 1000) - MaxAgeSec + 1), u)}

MissingInitData == [empty |-> TRUE, hash |-> NoSig, auth_date |-> NoDate, user |-> NoUser]
InitDatas ==
    {MissingInitData} \cup
    UNION { UNION { { [empty |-> FALSE, hash |-> h, auth_date |-> a, user |-> u]
                        : h \in Hashes(a, u) }
                    : u \in Ids \cup {NoUser} }
            : a \in AuthDates }

\* A body whose initData is the bot's signature of a fresh auth_date and a user.
GoodInitData(u) ==
    LET a == DateOf((SubmitStart \div 1000) - MaxAgeSec + 1)
    IN [empty |-> FALSE, hash |-> hmacSha256(BOT_TOKEN, a, u), auth_date |-> a, user |-> u]

\* The JSON bodies of POST /submit_token: with a token the captcha service
\* accepts, any initData and any userId; with a token it refuses, a good
\* initData and any userId.
Requests ==
    [token : {"good"}, initData : InitDatas, userId : Ids \cup {NoUser}]
        \cup [token : {"bad"}, initData : {GoodInitData("u1")}, userId : Ids \cup {NoUser}]

Ok200 == [status |-> 200, success |-> TRUE, error |-> ""]
Err400(msg) == [status |-> 400, success |-> FALSE, error |-> msg]

\* The handler's locals, the rows it wrote, the chats it sent to, the
\* second the request arrived at and the second its initData was checked at.
SubmitFrame(req) ==
    [pc |-> "sb_site", req |-> req, userId |-> NoUser, resp |-> Err400(""),
     rows |-> {}, chats |-> {}, tid |-> NULL, at |-> now \div 1000, checked |-> 0]
\* What is kept of an answered request: the response, the effects, and the
\* auth_date with the second it was checked at.
SubmitFin(r) ==
    [pc |-> "done", resp |-> r.resp, rows |-> r.rows, chats |-> r.chats,
     userId |-> r.userId, auth_date |-> r.req.initData.auth_date,
     checked |-> r.checked]
SubmitStep(t, r) == task' = [task EXCEPT ![t] = IF r.pc = "done" THEN SubmitFin(r) ELSE r]
Respond(t, resp) == SubmitStep(t, [task[t] EXCEPT !.pc = "done", !.resp = resp])

\* fetch: POST /submit_token -> handleTokenSubmit(req, env).
SubmitToken(t, req) ==
    /\ CanStart(t)
    /\ \A s \in Tasks : s < t => ~Free(s)
    /\ task' = [task EXCEPT ![t] = SubmitFrame(req)]
    /\ obs' = [obs EXCEPT !.ops = @ + 1]
    /\ UNCHANGED <<users, config, CACHE, now, sched>>

\* Lines 802-817: the captcha service is asked; it answers success for a
\* good token, or the request to it fails.
SubmitSiteverify(t) ==
    /\ task[t].pc = "sb_site"
    /\ \E net \in {"ok", "down"} :
         IF net = "down" THEN Respond(t, Err400("fetch failed"))
         ELSE IF task[t].req.token # "good" THEN Respond(t, Err400("Token Invalid"))
         ELSE SubmitStep(t, [task[t] EXCEPT !.pc = "sb_init"])
    /\ UNCHANGED <<users, config, CACHE, now, sched, obs>>

\* Lines 820-824: the initData of the body is verified.
SubmitInitData(t) ==
    /\ task[t].pc = "sb_init"
    /\ LET parsed == SubmitCheck(task[t].req)
           r == [task[t] EXCEPT !.checked = now \div 1000] IN
       IF parsed.err # ""
       THEN SubmitStep(t, [r EXCEPT !.pc = "done", !.resp = Err400(parsed.err)])
       ELSE SubmitStep(t, [r EXCEPT !.pc = "sb_state", !.userId = parsed.userId])
    /\ UNCHANGED <<users, config, CACHE, now, sched, obs>>

\* Lines 826-836: updUser(userId, {user_state}) and the sendMessage that
\* follows it (a failing sendMessage throws).
SubmitState(t) ==
    /\ task[t].pc = "sb_state"
    /\ LET id == task[t].userId
           qaOn == getBool("enable_qa_verify") IN
       /\ users' = [users EXCEPT ![id].user_state =
             IF qaOn THEN "pending_verification" ELSE "verified"]
       /\ \E ok \in BOOLEAN :
            SubmitStep(t, [task[t] EXCEPT
               !.rows = @ \cup {id},
               !.chats = IF ok THEN @ \cup {id} ELSE @,
               !.resp = IF ~ok THEN Err400("api") ELSE IF qaOn THEN Ok200 ELSE @,
               !.pc = IF ~ok \/ qaOn THEN "done" ELSE "sb_get"])
    /\ UNCHANGED <<config, CACHE, now, sched, obs>>

\* Lines 839-843: getUser, and createForumTopic when the row has no topic.
SubmitTopic(t) ==
    /\ task[t].pc = "sb_get"
    /\ IF users[task[t].userId].topic_id # NULL THEN Respond(t, Ok200)
       ELSE \E ok \in BOOLEAN :
              IF ok THEN SubmitStep(t, [task[t] EXCEPT !.pc = "sb_persist", !.tid = 1])
              ELSE Respond(t, Err400("api"))
    /\ UNCHANGED <<users, config, CACHE, now, sched, obs>>

\* Lines 844-846: updUser(userId, {topic_id}), then sendInfoCardToTopic,
\* which stores the card's message id unless its sendMessage failed.
SubmitPersist(t) ==
    /\ task[t].pc = "sb_persist"
    /\ LET id == task[t].userId IN
       /\ \E card \in BOOLEAN :
            users' = [users EXCEPT
               ![id].topic_id = task[t].tid,
               ![id].user_info = IF card THEN mergeUserInfo(@, [card_msg_id |-> 1]) ELSE @]
       /\ SubmitStep(t, [task[t] EXCEPT !.rows = @ \cup {id}, !.pc = "done",
                                      !.resp = Ok200])
    /\ UNCHANGED <<config, CACHE, now, sched, obs>>

\* Two users waiting at the captcha gate; requests are handled one after
\* another.
InitSubmit ==
    /\ users = [u \in Ids |-> [NewRow EXCEPT !.user_state = "pending_turnstile"]]
    /\ \E q \in {"true", "false"} :
          config = [enable_verify |-> "true", enable_qa_verify |-> q]
    /\ CACHE = [p \in Procs |-> [data |-> NoRows, ts |-> 0, locks |-> NoLocks]]
    /\ now = SubmitStart
    /\ task = [t \in Tasks |-> Idle]
    /\ sched = [par |-> 1, proc |-> [t \in Tasks |-> "p1"], url |-> TRUE]
    /\ obs = [ops |-> 0]

NextSubmit ==
    \/ Tick(500, SubmitStart)
    \/ \E t \in Tasks :
        \/ \E req \in Requests : SubmitToken(t, req)
        \/ SubmitSiteverify(t)
        \/ SubmitInitData(t)
        \/ SubmitState(t)
        \/ SubmitTopic(t)
        \/ SubmitPersist(t)

SpecSubmit == InitSubmit /\ [][NextSubmit]_vars


\* The requests the error cases are about: the captcha service refuses the
\* token, or the initData is missing, carries no hash or no auth_date, was
\* older than the limit when the request arrived, or is not signed with the
\* bot's key over its fields.
Expired(r) ==
    LET d == parseInt(r.req.initData.auth_date)
    IN ~d.nan /\ d.n # 0 /\ r.at - d.n > MaxAgeSec
BadRequest(r) ==
    LET i == r.req.initData IN
    \/ r.req.token = "bad"
    \/ i.empty
    \/ i.hash = NoSig
    \/ i.auth_date = NoDate
    \/ Expired(r)
    \/ i.hash # hmacSha256(BOT_TOKEN, i.auth_date, i.user)

Handling == {t \in Tasks : task[t].pc \notin {"idle", "done"}}

\* C15: a /submit_token request whose captcha token is refused, or whose
\* initData is missing, lacks hash or auth_date, is expired or fails the
\* HMAC comparison, is answered 400 with success false and an error text,
\* and no step of its handler writes a row or sends a chat message.
C15_BadSubmitRejectedWithoutEffect ==
    [][\A t \in Handling :
          BadRequest(task[t]) =>
              /\ task'[t].rows = {}
              /\ task'[t].chats = {}
              /\ users' = users
              /\ task'[t].pc = "done" =>
                    /\ task'[t].resp.status = 400
                    /\ ~task'[t].resp.success
                    /\ task'[t].resp.error # ""]_vars

\* A request with an accepted token and an initData that fails only the
\* HMAC comparison has been answered.
C15_Witness ==
    \E t \in Tasks :
        /\ task[t].pc = "done"
        /\ task[t].resp = Err400("initData hash mismatch")
        /\ task[t].rows = {} /\ task[t].chats = {}

\* C16: the only row a /submit_token handler writes, and the only chat it
\* sends to, is the user inside an initData that carries the bot's
\* signature of its fields; what the check of the body yields is the same
\* whatever userId the body carries.
C16_TargetIsInitDataUser ==
    [][\A t \in Handling :
          LET req == task[t].req
              i == req.initData IN
          /\ \A b \in Ids \cup {NoUser} :
                SubmitCheck([req EXCEPT !.userId = b]) = SubmitCheck(req)
          /\ task'[t].rows \subseteq {i.user}
          /\ task'[t].chats \subseteq {i.user}
          /\ \A id \in Ids :
                users'[id] # users[id] =>
                    /\ id = i.user
                    /\ i.hash = hmacSha256(BOT_TOKEN, i.auth_date, i.user)]_vars

\* A handler has written the state of the initData's user while the body
\* named the other user.
C16_Witness ==
    \E t \in Handling :
        /\ task[t].req.userId \in Ids
        /\ task[t].req.initData.user \in Ids
        /\ task[t].req.userId # task[t].req.initData.user
        /\ task[t].rows = {task[t].req.initData.user}
        /\ task[t].chats = {task[t].req.initData.user}

\* C17: with a hash present, verifyTelegramInitData throws "initData
\* expired" exactly when the current second minus auth_date exceeds 600,
\* and throws "initData missing auth_date" for an absent, zero or
\* non-numeric auth_date.
C17_AgeLimit ==
    [][\A t \in Handling :
          LET i == task[t].req.initData
              d == i.auth_date
              numeric == d.txt = "num" /\ d.n # 0 IN
          (task[t].pc = "sb_init" /\ task'[t].pc # "sb_init"
              /\ ~i.empty /\ i.hash # NoSig) =>
              /\ task'[t].resp = Err400("initData expired")
                    <=> (numeric /\ (now \div 1000) - d.n > MaxAgeSec)
              /\ ~numeric => task'[t].resp = Err400("initData missing auth_date")]_vars

\* An initData exactly 600 seconds old when checked has been accepted.
C17_Witness ==
    \E t \in Tasks :
        /\ task[t].pc = "done"
        /\ task[t].resp = Ok200
        /\ task[t].auth_date.txt = "num"
        /\ task[t].checked - task[t].auth_date.n = MaxAgeSec

\* ------------------------------- SpecConsole: who writes the config table
\* The accounts an update can come from: one listed in ADMIN_IDS, one listed
\* only in authorized_admins, one listed in neither.
Senders == {"primary", "extra", "member"}
\* parseIdSet(env.ADMIN_IDS || "").has(id)
isAdm(w) == w = "primary"
\* isAuthAdmin, lines 280-286.
isAuthAdmin(w) == isAdm(w) \/ (w = "extra" /\ Cfg("authorized_admins") = "extra")
\* `admin_state:${id}`
StateKey(w) ==
    CASE w = "primary" -> "admin_state:primary"
      [] w = "extra" -> "admin_state:extra"
      [] OTHER -> "admin_state:member"

\* setCfg / DELETE FROM config on behalf of an update sent by w: the rows
\* of kv replace the stored ones.
ConfigWrite(w, kv) ==
    /\ config' = [k \in DOMAIN config |-> IF k \in DOMAIN kv THEN kv[k] ELSE config[k]]
    /\ obs' = [obs EXCEPT !.ops = @ + 1, !.wrote = @ \cup {<<w, k>> : k \in DOMAIN kv}]
NoWrite == obs' = [obs EXCEPT !.ops = @ + 1] /\ UNCHANGED config

\* handleCallback, lines 983-1016, and handleAdminConfig, lines 1194-1235:
\* a config:<verb> callback from w (rotate_mode; toggle:busy_mode;
\* edit:welcome_msg; cl:authorized_admins), sent from w's private chat.
ConfigCallback(w, verb) ==
    /\ obs.ops < MaxOps
    /\ IF ~isAdm(w) THEN NoWrite
       ELSE CASE verb = "rotate_mode" ->
                   LET on == getBool("enable_verify")
                       mode == Cfg("captcha_mode") IN
                   ConfigWrite(w, [captcha_mode |->
                                      IF ~on THEN "turnstile"
                                      ELSE IF mode = "turnstile" THEN "recaptcha" ELSE mode,
                                   enable_verify |->
                                      IF on /\ mode # "turnstile" THEN "false" ELSE "true"])
              [] verb = "toggle" ->
                   ConfigWrite(w, [busy_mode |-> IF getBool("busy_mode") THEN "false" ELSE "true"])
              [] verb = "cl" -> ConfigWrite(w, [authorized_admins |-> ""])
              [] OTHER -> ConfigWrite(w, (StateKey(w) :> "input"))
    /\ UNCHANGED <<users, CACHE, now, task, sched>>

\* handleCallback, lines 972-980: a note:set callback from w.
NoteCallback(w) ==
    /\ obs.ops < MaxOps
    /\ ConfigWrite(w, (StateKey(w) :> "input_note"))
    /\ UNCHANGED <<users, CACHE, now, task, sched>>

\* handlePrivate, lines 325-367, and handleAdminInput, lines 1281-1335: a
\* private text from w (not /start, not /help; the row is not blocked).
\* With an input state stored for a primary admin the text is consumed as
\* the value of welcome_msg, or the state is dropped on /cancel; any other
\* message goes on to the user path.
ConsolePrivate(w, txt) ==
    /\ obs.ops < MaxOps
    /\ IF isAdm(w) /\ Cfg(StateKey(w)) = "input"
       THEN /\ config' = [config EXCEPT
                  ![StateKey(w)] = "",
                  !["welcome_msg"] = IF txt = "/cancel" THEN @ ELSE txt]
            /\ obs' = [obs EXCEPT
                  !.ops = @ + 1,
                  !.wrote = @ \cup {<<w, StateKey(w)>>}
                              \cup (IF txt = "/cancel" THEN {} ELSE {<<w, "welcome_msg">>}),
                  !.consumed = @ \cup {w}]
       ELSE NoWrite
    /\ UNCHANGED <<users, CACHE, now, task, sched>>

\* handleAdminReply, lines 1050-1061: a message of w in a topic of the
\* operator group; with a note state stored for an authorized admin the
\* text becomes the note of the user and the state is emptied.
GroupMessage(w) ==
    /\ obs.ops < MaxOps
    /\ IF isAuthAdmin(w) /\ Cfg(StateKey(w)) = "input_note"
       THEN /\ WriteInfo(mergeUserInfo(users[Uid].user_info, [note |-> 1]))
            /\ ConfigWrite(w, (StateKey(w) :> ""))
       ELSE NoWrite /\ UNCHANGED users
    /\ UNCHANGED <<CACHE, now, task, sched>>

InitConsole ==
    /\ users = [u \in {Uid} |-> [NewRow EXCEPT !.user_state = "verified", !.topic_id = 1]]
    /\ \E a \in {"", "extra"} :
          config = [k \in {"busy_mode", "enable_verify", "captcha_mode", "welcome_msg",
                           "authorized_admins"} \cup {StateKey(w) : w \in Senders} |->
                      CASE k = "authorized_admins" -> a
                        [] k = "captcha_mode" -> "turnstile"
                        [] k \in {StateKey(w) : w \in Senders} -> ""
                        [] OTHER -> DEFAULTS(k)]
    /\ CACHE = [p \in Procs |-> [data |-> NoRows, ts |-> 0, locks |-> NoLocks]]
    /\ now = CacheTtl
    /\ task = [t \in Tasks |-> Idle]
    /\ sched = [par |-> 1, proc |-> [t \in Tasks |-> "p1"], url |-> TRUE]
    /\ obs = [ops |-> 0, wrote |-> {}, consumed |-> {}]

NextConsole ==
    \E w \in Senders :
        \/ \E verb \in {"rotate_mode", "toggle", "edit", "cl"} : ConfigCallback(w, verb)
        \/ NoteCallback(w)
        \/ \E txt \in {"text", "/cancel"} : ConsolePrivate(w, txt)
        \/ GroupMessage(w)

SpecConsole == InitConsole /\ [][NextConsole]_vars

\* C18: every config row written, and every message consumed as console
\* input, comes from an update of an account listed in ADMIN_IDS.
C18_OnlyPrimaryWritesConfig ==
    /\ \A e \in obs.wrote : isAdm(e[1])
    /\ \A w \in obs.consumed : isAdm(w)

\* ------------------- SpecRelay: forward, copy, delivery mark, topic loss
\* The descriptions a failing chat API call can carry, as far as line 600
\* tells them apart.
Descriptions == {"other", "thread", "not found"}
\* cpErr.message.includes("thread") || cpErr.message.includes("not found")
TopicLost(e) == e \in {"thread", "not found"}

\* What has happened to the message being relayed: the outcome of
\* forwardMessage and of copyMessage ("" = not called, "ok", or the error
\* description), of setMessageReaction ("" = not called, "sent" = awaiting
\* the answer, "ok", "fail"), and whether the text reply was sent.
NoMsg == [fwd |-> "", cp |-> "", react |-> "", reply |-> FALSE]
Relayed == obs.msg.fwd = "ok" \/ obs.msg.cp = "ok"

\* handleUpdate -> handlePrivate for a plain text of the user; the detached
\* calls of the message before it have ended.
RelayMessage(t) ==
    /\ CanStart(t)
    /\ \A s \in Tasks : s < t => ~Free(s)
    /\ obs.msg.react # "sent"
    /\ Step(t, Frame("text", "p_get", "s_get"))
    /\ obs' = [obs EXCEPT !.ops = @ + 1, !.msg = NoMsg]
    /\ UNCHANGED <<users, config, CACHE, now, sched>>

\* relayToTopic, lines 577-585: forwardMessage into the topic.
RelayFwd(t) ==
    /\ task[t].pc = "r_forward"
    /\ \E res \in {"ok"} \cup Descriptions :
         /\ obs' = [obs EXCEPT !.msg.fwd = res]
         /\ Step(t, [task[t] EXCEPT
               !.called = TRUE,
               !.failed = @ \/ res # "ok",
               !.pc = IF res = "ok" THEN "r_ack" ELSE "r_copy"])
    /\ UNCHANGED <<users, config, CACHE, now, sched>>

\* A variant of line 600 that takes every failure of the copy for a lost topic.
RelayCopyAnyLost(t) ==
    /\ task[t].pc = "r_copy"
    /\ \E res \in {"ok"} \cup Descriptions :
         /\ obs' = [obs EXCEPT !.msg.cp = res]
         /\ Step(t, [task[t] EXCEPT
               !.pc = IF res = "ok" THEN "r_ack" ELSE "r_expire"])
    /\ UNCHANGED <<users, config, CACHE, now, sched>>

\* relayToTopic, lines 586-600: copyMessage into the topic, and the test of
\* its error description.
RelayCopy(t) ==
    /\ task[t].pc = "r_copy"
    /\ \E res \in {"ok"} \cup Descriptions :
         /\ obs' = [obs EXCEPT !.msg.cp = res]
         /\ Step(t, [task[t] EXCEPT
               !.pc = IF res = "ok" THEN "r_ack"
                      ELSE IF TopicLost(res) THEN "r_expire" ELSE "done"])
    /\ UNCHANGED <<users, config, CACHE, now, sched>>

\* relayToTopic, lines 601-602: updUser(uid, {topic_id: null}), then the
\* notice to the user (told counts the notices that arrived).
RelayExpire(t) ==
    /\ task[t].pc = "r_expire"
    /\ WriteRow([Row EXCEPT !.topic_id = NULL])
    /\ \E ok \in BOOLEAN :
         obs' = [obs EXCEPT !.nulled = @ + 1,
                            !.lost = @ \cup {Row.topic_id},
                            !.told = IF ok THEN @ + 1 ELSE @]
    /\ Step(t, [task[t] EXCEPT !.pc = "done"])
    /\ UNCHANGED <<config, CACHE, now, sched>>

\* relayToTopic, lines 607-609, and markDelivered, line 520: the reaction
\* call is sent; relayToTopic does not wait for it.
RelayAck(t) ==
    /\ task[t].pc = "r_ack"
    /\ obs' = [obs EXCEPT !.msg.react = "sent"]
    /\ Step(t, [task[t] EXCEPT !.pc = "r_fan"])
    /\ UNCHANGED <<users, config, CACHE, now, sched>>

\* A variant of lines 526-533 that sends the text reply whatever the
\* reaction call answered.
MarkReactionAlways ==
    /\ obs.msg.react = "sent"
    /\ \E ok \in BOOLEAN :
         obs' = [obs EXCEPT !.msg.react = IF ok THEN "ok" ELSE "fail",
                            !.msg.reply = TRUE]
    /\ UNCHANGED <<users, config, CACHE, now, task, sched>>

\* markDelivered, lines 520-534: the reaction call answers; on an error
\* the text reply is sent (its own failure is swallowed).
MarkReaction ==
    /\ obs.msg.react = "sent"
    /\ \E ok \in BOOLEAN :
         obs' = [obs EXCEPT !.msg.react = IF ok THEN "ok" ELSE "fail",
                            !.msg.reply = ~ok]
    /\ UNCHANGED <<users, config, CACHE, now, task, sched>>

\* relayToTopic, lines 611-621: the message log (a table not kept here),
\* then handleInbox and handleBackup, by their effects on the row and on
\* the config table: the inbox topic is created when none is configured,
\* the inbox card is edited or sent anew, or a call fails and nothing is
\* stored.
RelayFanOut(t) ==
    /\ task[t].pc = "r_fan"
    /\ \E inbox \in BOOLEAN, res \in {"none", "edit", "card"} :
         /\ res = "edit" => Info(Row, "inbox_msg_id") # NULL
         /\ (~inbox /\ Cfg("unread_topic_id") = "") => res = "none"
         /\ config' = IF inbox /\ Cfg("unread_topic_id") = ""
                      THEN [k \in DOMAIN config \cup {"unread_topic_id"} |->
                               IF k = "unread_topic_id" THEN "inbox" ELSE config[k]]
                      ELSE config
         /\ IF res = "none" THEN UNCHANGED users
            ELSE WriteRow([Row EXCEPT !.user_info = mergeUserInfo(@,
                    IF res = "edit" THEN [last_notify |-> 1]
                    ELSE [last_notify |-> 1, inbox_msg_id |-> 1])])
    /\ Step(t, [task[t] EXCEPT !.pc = "done"])
    /\ UNCHANGED <<CACHE, now, sched, obs>>

\* A verified user, with or without a topic; both gates off; messages are
\* handled one after another.
InitRelay ==
    /\ \E tid \in {NULL, 1} :
          users = [u \in {Uid} |-> [NewRow EXCEPT !.user_state = "verified", !.topic_id = tid]]
    /\ config = [enable_verify |-> "false", enable_qa_verify |-> "false"]
    /\ CACHE = [p \in Procs |-> [data |-> NoRows, ts |-> 0, locks |-> NoLocks]]
    /\ now = CacheTtl
    /\ task = [t \in Tasks |-> Idle]
    /\ sched = [par |-> 1, proc |-> [t \in Tasks |-> "p1"], url |-> TRUE]
    /\ obs = [ops |-> 0, pure |-> TRUE, created |-> 0, nulled |-> 0,
              lost |-> {}, told |-> 0, msg |-> NoMsg]

NextRelay ==
    \/ MarkReaction
    \/ \E t \in Tasks :
        \/ RelayMessage(t)
        \/ PrivateGetUser(t)
        \/ RelayEnter(t)
        \/ RelayReread(t)
        \/ RelayCreate(t)
        \/ RelayPersist(t)
        \/ RelayCard(t)
        \/ RelayCatch(t)
        \/ RelayFwd(t)
        \/ RelayCopy(t)
        \/ RelayExpire(t)
        \/ RelayAck(t)
        \/ RelayFanOut(t)

SpecRelay == InitRelay /\ [][NextRelay]_vars

\* C19: copyMessage is called only after forwardMessage failed; once the
\* handler has ended, the reaction call has been made exactly if one of the
\* two succeeded; the text reply is sent only after the reaction call
\* failed; a message that was not relayed gets neither.
C19_AckFollowsRelay ==
    /\ obs.msg.cp # "" => obs.msg.fwd \in Descriptions
    /\ obs.msg.react # "" => Relayed
    /\ (Quiet /\ Relayed) => obs.msg.react # ""
    /\ obs.msg.reply => obs.msg.react = "fail"
    /\ ~Relayed => ~obs.msg.reply

\* A message that only copyMessage delivered has been acknowledged by the
\* text reply, the reaction call having failed.
C19_Witness ==
    /\ Quiet
    /\ obs.msg.fwd \in Descriptions
    /\ obs.msg.cp = "ok"
    /\ obs.msg.react = "fail"
    /\ obs.msg.reply

\* C20 as stated: topic_id is nulled, and the user told, only when both
\* forwardMessage and copyMessage failed with a topic-lost description;
\* a relay after that goes into a topic created since; any other failure
\* leaves topic_id unchanged.
C20_NulledOnlyWhenBothLost ==
    [][/\ (obs'.nulled > obs.nulled \/ obs'.told > obs.told)
             => TopicLost(obs.msg.fwd) /\ TopicLost(obs.msg.cp)
       /\ \A t \in Tasks :
             task'[t].pc \in {"r_forward", "r_copy", "r_ack"} => task'[t].tid \notin obs'.lost
       /\ ~(TopicLost(obs.msg.fwd) /\ TopicLost(obs.msg.cp))
             => (Row.topic_id # NULL => Row'.topic_id = Row.topic_id)]_vars

\* C20, amended: topic_id is nulled, and the user told, only when
\* forwardMessage failed, with whatever description, and copyMessage then
\* failed with a topic-lost description; a relay after that goes into a
\* topic created since; any other outcome leaves topic_id unchanged.
C20_NulledOnlyWhenCopyLost ==
    [][/\ (obs'.nulled > obs.nulled \/ obs'.told > obs.told)
             => obs.msg.fwd \in Descriptions /\ TopicLost(obs.msg.cp)
       /\ \A t \in Tasks :
             task'[t].pc \in {"r_forward", "r_copy", "r_ack"} => task'[t].tid \notin obs'.lost
       /\ ~(obs.msg.fwd \in Descriptions /\ TopicLost(obs.msg.cp))
             => (Row.topic_id # NULL => Row'.topic_id = Row.topic_id)]_vars

\* The topic was nulled after a forward and a copy that both failed, the
\* user was told, and a later message has been forwarded into a new topic.
C20_Witness ==
    /\ obs.nulled = 1
    /\ obs.told = 1
    /\ obs.msg.fwd = "ok"
    /\ Row.topic_id # NULL
    /\ Row.topic_id \notin obs.lost

\* --------------------- SpecPipe: handleVerifiedMsg, the stages of a message
BusyGap == 300000      \* now - last > 300000

\* MSG_TYPES, lines 55-67: each type's switch and the message fields its
\* check looks for ("url": an entity of type url or text_link in entities).
MSG_TYPES ==
    << [key |-> "enable_forward_forwarding", any |-> {"forward_from", "forward_from_chat"}],
       [key |-> "enable_audio_forwarding", any |-> {"audio", "voice"}],
       [key |-> "enable_sticker_forwarding", any |-> {"sticker", "animation"}],
       [key |-> "enable_image_forwarding", any |-> {"photo", "video", "document"}],
       [key |-> "enable_link_forwarding", any |-> {"url"}],
       [key |-> "enable_text_forwarding", any |-> {"text"}] >>

\* A variant of lines 63-64 with the media type ahead of sticker/animation.
MsgTypeMediaFirst(m) ==
    LET order == <<1, 2, 4, 3, 5, 6>>
        hit == {n \in 1..Len(MSG_TYPES) : MSG_TYPES[order[n]].any \cap m.attrs # {}}
    IN IF hit = {} THEN 0 ELSE order[CHOOSE n \in hit : \A k \in hit : n <= k]

\* for (const t of MSG_TYPES) if (t.check(msg)) ... break: the index of the
\* first type whose check holds, 0 when none does.
MsgType(m) ==
    LET hit == {i \in 1..Len(MSG_TYPES) : MSG_TYPES[i].any \cap m.attrs # {}}
    IN IF hit = {} THEN 0 ELSE CHOOSE i \in hit : \A k \in hit : i <= k

\* Lines 479-489: the message is refused by its type's switch, or, a
\* forward from a channel, by enable_channel_forwarding.
Refused(m) ==
    LET i == MsgType(m) IN
    /\ i # 0
    /\ ~isAuthAdmin(m.from)
    /\ \/ ~getBool(MSG_TYPES[i].key)
       \/ /\ MSG_TYPES[i].key = "enable_forward_forwarding"
          /\ "channel" \in m.attrs
          /\ ~getBool("enable_channel_forwarding")

\* The private messages considered, by the fields they carry ("channel":
\* forward_from_chat.type is "channel"), whether their text hits a block
\* keyword ("kw") or an auto-reply rule ("ar"), and their sender: an
\* ordinary account or one listed in authorized_admins.
AttrSets ==
    { {"forward_from", "text"},
      {"forward_from_chat", "text"},
      {"forward_from_chat", "channel", "photo", "caption"},
      {"voice"},
      {"animation", "document"},
      {"photo", "caption"},
      {"text", "url"},
      {"text"},
      {"location"} }
Msgs ==
    [attrs : AttrSets, hits : {{}}, from : {"member", "extra"}]
        \cup [attrs : {{"text"}}, hits : SUBSET {"kw", "ar"}, from : {"member"}]

SwitchKeys == {MSG_TYPES[i].key : i \in 1..Len(MSG_TYPES)} \cup {"enable_channel_forwarding"}
RelayPcs ==
    {"r_lock", "r_reread", "r_create", "r_persist", "r_card", "r_catch",
     "r_forward", "r_copy", "r_expire", "r_ack", "r_fan"}

\* handleUpdate -> handlePrivate for message m; the detached calls of the
\* message before it have ended.
PipeMessage(t, m) ==
    /\ CanStart(t)
    /\ \A s \in Tasks : s < t => ~Free(s)
    /\ obs.msg.react # "sent"
    /\ Step(t, Frame("text", "v_get", "done"))
    /\ obs' = [obs EXCEPT !.ops = @ + 1, !.msg = NoMsg, !.cur = m,
                          !.stages = <<>>, !.hit = ""]
    /\ UNCHANGED <<users, config, CACHE, now, sched>>

\* handlePrivate, lines 343-380, for a sender outside ADMIN_IDS and a text
\* other than /start: getUser, the blocked test, the gates.
PipeGet(t) ==
    /\ task[t].pc = "v_get"
    /\ Step(t, [task[t] EXCEPT
          !.u = Row,
          !.pc = IF Row.is_blocked THEN "done"
                 ELSE IF Row.user_state # "verified"
                         /\ (getBool("enable_verify") \/ getBool("enable_qa_verify"))
                      THEN "s_get"
                 ELSE "v_kw"])
    /\ UNCHANGED <<users, config, CACHE, now, sched, obs>>

\* handleVerifiedMsg, lines 460-464: the block keywords.
PipeKeywords(t) ==
    /\ task[t].pc = "v_kw"
    /\ LET hit == "kw" \in obs.cur.hits IN
       /\ obs' = [obs EXCEPT !.stages = Append(@, "kw"),
                             !.hit = IF hit THEN "kw" ELSE @]
       /\ Step(t, [task[t] EXCEPT !.pc = IF hit THEN "accrue" ELSE "v_type"])
    /\ UNCHANGED <<users, config, CACHE, now, sched>>

\* handleVerifiedMsg, lines 477-492: the type switches; a refused message
\* is answered "not accepted" and the handler returns.
PipeType(t) ==
    /\ task[t].pc = "v_type"
    /\ LET no == Refused(obs.cur) IN
       /\ obs' = [obs EXCEPT !.stages = Append(@, "type"),
                             !.hit = IF no THEN "type" ELSE @]
       /\ Step(t, [task[t] EXCEPT !.called = @ \/ no,
                               !.pc = IF no THEN "done" ELSE "v_auto"])
    /\ UNCHANGED <<users, config, CACHE, now, sched>>

\* handleVerifiedMsg, lines 495-500: the first matching auto-reply rule
\* sends its response (not awaited).
PipeAuto(t) ==
    /\ task[t].pc = "v_auto"
    /\ LET match == "ar" \in obs.cur.hits IN
       /\ obs' = [obs EXCEPT !.stages = Append(@, "auto"),
                             !.hit = IF match THEN "auto" ELSE @]
       /\ Step(t, [task[t] EXCEPT !.called = @ \/ match, !.pc = "v_busy"])
    /\ UNCHANGED <<users, config, CACHE, now, sched>>

\* handleVerifiedMsg, lines 503-513: with busy_mode on and the last notice
\* (as the handler's copy u of the row has it) more than 300 s old, the
\* notice is sent and last_busy_reply set; then relayToTopic.
PipeBusy(t) ==
    /\ task[t].pc = "v_busy"
    /\ LET notice == getBool("busy_mode")
                        /\ now - Info(task[t].u, "last_busy_reply") > BusyGap IN
       /\ IF notice
          THEN WriteRow([Row EXCEPT !.user_info =
                            mergeUserInfo(@, [last_busy_reply |-> now])])
          ELSE UNCHANGED users
       /\ obs' = [obs EXCEPT !.stages = Append(@, "busy"),
                             !.busy = IF notice THEN Append(@, now) ELSE @]
       /\ Step(t, [task[t] EXCEPT !.called = @ \/ notice, !.pc = "r_lock"])
    /\ UNCHANGED <<config, CACHE, now, sched>>

PipeObs ==
    [ops |-> 0, cards |-> {}, posted |-> 0, created |-> 0, nulled |-> 0,
     lost |-> {}, told |-> 0, msg |-> NoMsg, cur |-> CHOOSE m \in Msgs : TRUE,
     stages |-> <<>>, hit |-> "", busy |-> <<>>]

\* A verified user with a topic; at most one of the type switches off, or
\* all of them on and busy_mode on; messages are handled one after another.
InitPipe ==
    /\ users = [u \in {Uid} |-> [NewRow EXCEPT !.user_state = "verified", !.topic_id = 1]]
    /\ \E off \in SwitchKeys \cup {""}, busy \in {"true", "false"} :
          /\ busy = "true" => off = ""
          /\ config = [k \in SwitchKeys \cup {"enable_verify", "enable_qa_verify", "busy_mode",
                                           "block_threshold", "authorized_admins"} |->
                      CASE k \in SwitchKeys -> (IF k = off THEN "false" ELSE "true")
                        [] k = "busy_mode" -> busy
                        [] k = "block_threshold" -> 1
                        [] k = "authorized_admins" -> "extra"
                        [] OTHER -> "false"]
    /\ CACHE = [p \in Procs |-> [data |-> NoRows, ts |-> 0, locks |-> NoLocks]]
    /\ now = 2 * BusyGap
    /\ task = [t \in Tasks |-> Idle]
    /\ sched = [par |-> 1, proc |-> [t \in Tasks |-> "p1"], url |-> TRUE]
    /\ obs = PipeObs

PipeSteps(t) ==
    \/ PipeGet(t)
    \/ PipeKeywords(t)
    \/ PipeType(t)
    \/ PipeAuto(t)
    \/ PipeBusy(t)
    \/ RelayEnter(t)
    \/ RelayFwd(t)
    \/ RelayCopy(t)
    \/ RelayExpire(t)
    \/ RelayAck(t)
    \/ RelayFanOut(t)

NextPipe ==
    \/ MarkReaction
    \/ \E t \in Tasks :
        \/ \E m \in Msgs : PipeMessage(t, m)
        \/ PipeSteps(t)
        \/ Accrue(t)
        \/ BlacklistOn(t)
        \/ BlacklistTopic(t)
        \/ BlacklistCard(t)
        \/ RelayReread(t)
        \/ RelayCreate(t)
        \/ RelayPersist(t)
        \/ RelayCard(t)
        \/ RelayCatch(t)

SpecPipe == InitPipe /\ [][NextPipe]_vars

InRelay == \E t \in Tasks : task[t].pc \in RelayPcs

\* C21: the stages run in the order block keywords, type switches,
\* auto-reply, quiet-hours reply, relay; after a keyword hit, a type
\* rejection or an auto-reply match no later stage runs and the message is
\* not handed to relayToTopic.
C21_FirstHitEndsProcessing ==
    /\ \E n \in 0..4 : obs.stages = SubSeq(<<"kw", "type", "auto", "busy">>, 1, n)
    /\ InRelay => Len(obs.stages) = 4
    /\ obs.hit # "" =>
          /\ obs.stages[Len(obs.stages)] = obs.hit
          /\ ~InRelay
          /\ obs.msg = NoMsg

\* The switch of the first type, in the order forwarded, audio/voice,
\* sticker/animation, media, link-bearing, plain text, that message m is
\* of ("" when it is of none).
TypeSwitch(m) ==
    IF m.attrs \cap {"forward_from", "forward_from_chat"} # {} THEN "enable_forward_forwarding"
    ELSE IF m.attrs \cap {"audio", "voice"} # {} THEN "enable_audio_forwarding"
    ELSE IF m.attrs \cap {"sticker", "animation"} # {} THEN "enable_sticker_forwarding"
    ELSE IF m.attrs \cap {"photo", "video", "document"} # {} THEN "enable_image_forwarding"
    ELSE IF "url" \in m.attrs THEN "enable_link_forwarding"
    ELSE IF "text" \in m.attrs THEN "enable_text_forwarding"
    ELSE ""
Accepted(m) ==
    \/ TypeSwitch(m) = ""
    \/ /\ getBool(TypeSwitch(m))
       /\ (TypeSwitch(m) = "enable_forward_forwarding" /\ "channel" \in m.attrs)
             => getBool("enable_channel_forwarding")

\* C22: a message of a sender who is not an authorized admin is handed to
\* relayToTopic only if the switch of its first matching type is true and,
\* for a forward from a channel, enable_channel_forwarding too; otherwise
\* it is answered "not accepted" and not relayed; a message of an
\* authorized admin is never refused for its type.
C22_TypeSwitchGatesRelay ==
    LET m == obs.cur IN
    /\ (InRelay /\ m.from = "member") => Accepted(m)
    /\ ("type" \in {obs.stages[i] : i \in 1..Len(obs.stages)}
           /\ m.from = "member" /\ ~Accepted(m))
          => /\ obs.hit = "type"
             /\ ~InRelay /\ obs.msg = NoMsg
             /\ \A t \in Tasks : task[t].pc = "done" => task[t].called
    /\ obs.hit = "type" => (m.from = "member" /\ ~Accepted(m))

\* An animation that is also a document has been relayed for an ordinary
\* user while the media switch is off.
C22_Witness ==
    /\ obs.cur.attrs = {"animation", "document"}
    /\ obs.cur.from = "member"
    /\ ~getBool("enable_image_forwarding")
    /\ Relayed

\* ------------- SpecBoard: the inbox board, the blacklist board, the notice
InboxLockTtl == 3000   \* lockSet(lk, 3000)
InboxKey == "inbox"            \* `inbox:${u.user_id}`

\* handleInbox, lines 651-653, entered from relayToTopic, line 620 (the
\* backup copy of handleBackup, run beside it, stores nothing): with the
\* user's inbox lock held in this process nothing is done.
InboxEnter(t) ==
    /\ task[t].pc = "r_fan"
    /\ LET c == CACHE[Me(t)] IN
       IF lockHas(c, InboxKey, now)
       THEN /\ Step(t, [task[t] EXCEPT !.pc = "done"])
            /\ obs' = [obs EXCEPT !.inbox = "locked"]
            /\ UNCHANGED CACHE
       ELSE /\ Step(t, [task[t] EXCEPT !.pc = "i_topic"])
            /\ obs' = [obs EXCEPT !.inbox = ""]
            /\ CACHE' = [CACHE EXCEPT ![Me(t)] = lockSet(c, InboxKey, InboxLockTtl, now)]
    /\ UNCHANGED <<users, config, now, sched>>

\* handleInbox, lines 655-656: the inbox topic is read from the configuration.
InboxGetTopic(t) ==
    /\ task[t].pc = "i_topic"
    /\ Step(t, [task[t] EXCEPT
          !.pc = IF Cfg("unread_topic_id") = "" THEN "i_create" ELSE "i_card"])
    /\ UNCHANGED <<users, config, CACHE, now, sched, obs>>

\* handleInbox, lines 657-663: createForumTopic and setCfg("unread_topic_id");
\* a failing call ends handleInbox.
InboxCreate(t) ==
    /\ task[t].pc = "i_create"
    /\ \E ok \in BOOLEAN :
         /\ config' = IF ok THEN PutRow(config, "unread_topic_id", "inbox") ELSE config
         /\ obs' = IF ok THEN [obs EXCEPT !.inboxTopics = @ + 1]
                   ELSE [obs EXCEPT !.inbox = "fail"]
         /\ Step(t, [task[t] EXCEPT !.pc = IF ok THEN "i_card" ELSE "done"])
    /\ UNCHANGED <<users, CACHE, now, sched>>

\* A variant of line 702 that records last_notify alone.
InboxCardUnrecorded(t) ==
    /\ task[t].pc = "i_card"
    /\ \E res \in {"edit", "card", "fail", "lost"} :
         /\ res = "edit" => Info(task[t].u, "inbox_msg_id") # NULL
         /\ IF res \in {"edit", "card"}
             THEN WriteRow([Row EXCEPT !.user_info = mergeUserInfo(@, [last_notify |-> 1])])
             ELSE UNCHANGED users
         /\ config' = IF res = "lost" THEN PutRow(config, "unread_topic_id", "") ELSE config
         /\ obs' = [obs EXCEPT !.inbox = res,
                               !.inboxCards = IF res = "card" THEN @ + 1 ELSE @,
                               !.cleared = @ \/ res = "lost"]
    /\ Step(t, [task[t] EXCEPT !.pc = "done"])
    /\ UNCHANGED <<CACHE, now, sched>>

\* handleInbox, lines 676-705: the card recorded in the handler's copy u of
\* the row is edited ("edit"); or, there being none or the edit failing, a
\* new card is sent and its id recorded ("card"); or the sendMessage fails
\* ("fail"), with a "thread" error emptying unread_topic_id ("lost").
InboxCard(t) ==
    /\ task[t].pc = "i_card"
    /\ \E res \in {"edit", "card", "fail", "lost"} :
         /\ res = "edit" => Info(task[t].u, "inbox_msg_id") # NULL
         /\ IF res = "edit"
             THEN WriteRow([Row EXCEPT !.user_info = mergeUserInfo(@, [last_notify |-> 1])])
             ELSE IF res = "card"
             THEN WriteRow([Row EXCEPT !.user_info = mergeUserInfo(@,
                     [last_notify |-> 1, inbox_msg_id |-> obs.inboxCards + 1])])
             ELSE UNCHANGED users
         /\ config' = IF res = "lost" THEN PutRow(config, "unread_topic_id", "") ELSE config
         /\ obs' = [obs EXCEPT !.inbox = res,
                               !.inboxCards = IF res = "card" THEN @ + 1 ELSE @,
                               !.cleared = @ \/ res = "lost"]
    /\ Step(t, [task[t] EXCEPT !.pc = "done"])
    /\ UNCHANGED <<CACHE, now, sched>>

PlainText == [attrs |-> {"text"}, hits |-> {}, from |-> "member"]

\* A verified user with a topic, busy_mode on, every type switch on, no
\* board topic yet; handlers overlap as sched allows, in one process or two.
InitBoard ==
    /\ users = [u \in {Uid} |-> [NewRow EXCEPT !.user_state = "verified", !.topic_id = 1]]
    /\ config = [k \in SwitchKeys \cup {"enable_verify", "enable_qa_verify", "busy_mode",
                                        "block_threshold", "authorized_admins"} |->
                    CASE k \in SwitchKeys -> "true"
                      [] k = "busy_mode" -> "true"
                      [] k = "block_threshold" -> 1
                      [] k = "authorized_admins" -> "extra"
                      [] OTHER -> "false"]
    /\ CACHE = [p \in Procs |-> [data |-> NoRows, ts |-> 0, locks |-> NoLocks]]
    /\ now = 2 * BusyGap
    /\ task = [t \in Tasks |-> Idle]
    /\ \E s \in Scheds :
          /\ s.par = 1 => \A t \in Tasks : s.proc[t] = "p1"
          /\ sched = [par |-> s.par, proc |-> s.proc, url |-> TRUE]
    /\ obs = [f \in DOMAIN PipeObs \cup {"pure", "inbox", "inboxTopics", "inboxCards",
                                         "blTopics", "cleared"} |->
                 CASE f = "pure" -> TRUE
                   [] f = "inbox" -> ""
                   [] f = "cleared" -> FALSE
                   [] f \in {"inboxTopics", "inboxCards", "blTopics"} -> 0
                   [] f = "cur" -> PlainText
                   [] OTHER -> PipeObs[f]]

\* The steps of the handlers, from the second step on.
BoardSteps(t) ==
    \/ PipeGet(t)
    \/ PipeKeywords(t)
    \/ PipeType(t)
    \/ PipeAuto(t)
    \/ PipeBusy(t)
    \/ RelayEnter(t)
    \/ RelayFwd(t)
    \/ RelayCopy(t)
    \/ RelayExpire(t)
    \/ RelayAck(t)
    \/ RelayReread(t)
    \/ RelayCreate(t)
    \/ RelayPersist(t)
    \/ RelayCard(t)
    \/ RelayCatch(t)
    \/ InboxEnter(t)
    \/ InboxGetTopic(t)
    \/ InboxCreate(t)
    \/ InboxCard(t)
    \/ CallbackGetUser(t)
    \/ CallbackWrite(t)
    \/ BlacklistOn(t)
    \/ BlacklistTopic(t)
    \/ BlacklistCard(t)
    \/ BlacklistOff(t)

\* As many updates as may overlap: plain text messages of the user and
\* presses of the block and unblock buttons.
BoardMessage(t) == obs.ops < MaxPar /\ PipeMessage(t, PlainText)
BoardCallback(t) == obs.ops < MaxPar /\ \E isB \in BOOLEAN : BlockCallback(t, isB)

NextBoard ==
    \/ MarkReaction
    \/ \E t \in Tasks :
        \/ BoardMessage(t)
        \/ BoardCallback(t)
        \/ BoardSteps(t)

SpecBoard == InitBoard /\ [][NextBoard]_vars

\* The same handlers, dispatched one after another, MaxOps updates in all,
\* with the clock advancing between them.
InitBoardSeq == InitBoard /\ sched.par = 1
NextBoardSeq ==
    \/ Tick(2000, 2 * BusyGap)
    \/ MarkReaction
    \/ \E t \in Tasks :
        \/ PipeMessage(t, PlainText)
        \/ \E isB \in BOOLEAN : BlockCallback(t, isB)
        \/ BoardSteps(t)

SpecBoardSeq == InitBoardSeq /\ [][NextBoardSeq]_vars

\* handleInbox ended without a failing chat API call.
InboxCalm == obs.inbox \notin {"fail", "lost"}

CardIffBlocked == (Info(Row, "blacklist_msg_id") # NULL) <=> Row.is_blocked
\* At most one blacklist card of the user is posted and not deleted.
OneCard == Cardinality(obs.cards) <= 1

\* C24: whenever no handler is in flight, the user has a recorded
\* blacklist_msg_id exactly if is_blocked is set, and at most one blacklist
\* card of the user is posted and not deleted.
C24_BlacklistCardTracksBlock == Quiet => (CardIffBlocked /\ OneCard)

\* ---------------------- SpecReply: operator-group messages to the user
\* The texts of a message as line 1059 tells them apart: "/clear", its
\* Chinese synonym (written "qingchu" here), and two other texts.
NoteTexts == {"/clear", "qingchu", "hello", "thanks"}
\* line 1059: the note a text stands for; the empty note is NULL, the two
\* other texts are notes 1 and 2.
NoteOf(text) ==
    CASE text \in {"/clear", "qingchu"} -> NULL
      [] text = "hello" -> 1
      [] OTHER -> 2

\* A message in the operator group: the topic it is in (NULL = none), its
\* sender, whether the sender is a bot, and its text.
GroupMsgs == [thread : {NULL, 1, 2}, from : Senders, bot : BOOLEAN, text : NoteTexts]
\* What handleAdminReply did with the last message: the outcome of
\* copyMessage ("" = not called), whether the receipt was posted, whether
\* the text was stored as a note.
NoReply == [copy |-> "", receipt |-> FALSE, note |-> FALSE]
\* SELECT user_id FROM users WHERE topic_id = ?  (line 1081): there is a row.
TopicOwner(thread) == {u \in DOMAIN users : users[u].topic_id = thread}

\* A variant of line 1052 that lets every sender through.
ReplyBodyAnySender(g, ok) ==
    IF g.thread = NULL \/ g.bot THEN NoReply
    ELSE IF Cfg(StateKey(g.from)) = "input_note" THEN [NoReply EXCEPT !.note = TRUE]
    ELSE IF TopicOwner(g.thread) = {} THEN NoReply
    ELSE [copy |-> IF ok THEN "ok" ELSE "fail",
          receipt |-> ok /\ getBool("enable_admin_receipt"),
          note |-> FALSE]

\* handleAdminReply, lines 1050-1103, by what it does with message g when
\* copyMessage succeeds (ok) or fails.
ReplyBody(g, ok) ==
    IF g.thread = NULL \/ g.bot THEN NoReply                       \* line 1051
    ELSE IF ~isAuthAdmin(g.from) THEN NoReply                      \* line 1052
    ELSE IF Cfg(StateKey(g.from)) = "input_note"                   \* lines 1055-1078
    THEN [NoReply EXCEPT !.note = TRUE]
    ELSE IF TopicOwner(g.thread) = {} THEN NoReply                 \* lines 1081-1083
    ELSE [copy |-> IF ok THEN "ok" ELSE "fail",                    \* lines 1085-1102
          receipt |-> ok /\ getBool("enable_admin_receipt"),
          note |-> FALSE]

\* A variant of line 1061 that leaves the input state stored.
AdminReplyKeepsState(g) ==
    /\ obs.ops < MaxOps
    /\ \E ok \in BOOLEAN :
         LET r == ReplyBody(g, ok) IN
         /\ obs' = [ops |-> obs.ops + 1, g |-> g, last |-> r, reply |-> TRUE]
         /\ IF r.note
            THEN WriteInfo(mergeUserInfo(users[Uid].user_info, [note |-> NoteOf(g.text)]))
            ELSE UNCHANGED users
         /\ UNCHANGED config
    /\ UNCHANGED <<CACHE, now, task, sched>>

\* handleUpdate, line 315 -> handleAdminReply for message g of the operator
\* group.
AdminReply(g) ==
    /\ obs.ops < MaxOps
    /\ \E ok \in BOOLEAN :
         LET r == ReplyBody(g, ok) IN
         /\ obs' = [ops |-> obs.ops + 1, g |-> g, last |-> r, reply |-> TRUE]
         /\ IF r.note
            THEN /\ WriteInfo(mergeUserInfo(users[Uid].user_info, [note |-> NoteOf(g.text)]))
                 /\ config' = PutRow(config, StateKey(g.from), "")
            ELSE UNCHANGED <<users, config>>
    /\ UNCHANGED <<CACHE, now, task, sched>>

\* handleCallback, lines 972-980: a note:set callback from w.
ReplyNoteCallback(w) ==
    /\ obs.ops < MaxOps
    /\ config' = PutRow(config, StateKey(w), "input_note")
    /\ obs' = [obs EXCEPT !.ops = @ + 1, !.last = NoReply, !.reply = FALSE]
    /\ UNCHANGED <<users, CACHE, now, task, sched>>

\* handleAdminConfig, lines 1194-1199: config:toggle:enable_admin_receipt.
ReceiptToggle ==
    /\ obs.ops < MaxOps
    /\ config' = PutRow(config, "enable_admin_receipt",
                        IF getBool("enable_admin_receipt") THEN "false" ELSE "true")
    /\ obs' = [obs EXCEPT !.ops = @ + 1, !.last = NoReply, !.reply = FALSE]
    /\ UNCHANGED <<users, CACHE, now, task, sched>>

\* A verified user, with or without a topic; one isolate, its handlers one
\* after another, so that the rows getCfg returns are the stored ones.
InitReply ==
    /\ \E tid \in {NULL, 1} :
          users = [u \in {Uid} |-> [NewRow EXCEPT !.user_state = "verified", !.topic_id = tid]]
    /\ \E a \in {"", "extra"}, r \in {"true", "false"} :
          config = [k \in {"authorized_admins", "enable_admin_receipt"} |->
                      IF k = "authorized_admins" THEN a ELSE r]
    /\ CACHE = [p \in Procs |-> [data |-> NoRows, ts |-> 0, locks |-> NoLocks]]
    /\ now = CacheTtl
    /\ task = [t \in Tasks |-> Idle]
    /\ sched = [par |-> 1, proc |-> [t \in Tasks |-> "p1"], url |-> TRUE]
    /\ obs = [ops |-> 0, g |-> [thread |-> NULL, from |-> "member", bot |-> FALSE,
                                 text |-> "hello"],
              last |-> NoReply, reply |-> FALSE]

NextReply ==
    \/ \E g \in GroupMsgs : AdminReply(g)
    \/ \E w \in Senders : ReplyNoteCallback(w)
    \/ ReceiptToggle

SpecReply == InitReply /\ [][NextReply]_vars

\* C25: a message of the operator group is copied to the user only if it
\* is inside a topic, its sender is not a bot and is listed in ADMIN_IDS or
\* in authorized_admins, and the topic is the one stored as the user's
\* topic_id; the receipt is posted only after copyMessage succeeded and only
\* with enable_admin_receipt true.
C25_ReplyOnlyFromAdminInOwnTopic ==
    [][LET g == obs'.g
           l == obs'.last IN
       /\ l.copy # "" =>
             /\ g.thread # NULL
             /\ ~g.bot
             /\ g.from = "primary"
                  \/ (g.from = "extra" /\ config["authorized_admins"] = "extra")
             /\ users[Uid].topic_id = g.thread
       /\ l.receipt => (l.copy = "ok" /\ config["enable_admin_receipt"] = "true")]_vars

\* An additional admin's message in the user's topic was copied to the user
\* and the receipt posted.
C25_Witness ==
    /\ obs.g.from = "extra"
    /\ obs.last.copy = "ok"
    /\ obs.last.receipt

\* ------------------------- SpecFetch: the HTTP entry and handleUpdate
Methods == {"GET", "POST"}
Paths == {"/", "/verify", "/submit_token", "/hook"}
\* The body of a request: not JSON ("text"), the JSON value null, or an
\* update carrying a private message, an edited private message, a callback
\* query, or a message of the operator group.
Bodies == {"text", "null", "message", "edited", "callback", "group"}
Resp(status, text) == [status |-> status, text |-> text]

\* A variant of lines 103-109 that answers OK whatever the body is.
FetchResponseUnparsed(m, path, body) ==
    IF m = "GET" /\ path = "/verify" THEN Resp(200, "page")
    ELSE IF m = "GET" /\ path = "/" THEN Resp(200, "banner")
    ELSE IF m = "POST" /\ path = "/submit_token" THEN Resp(200, "submit")
    ELSE IF m = "POST" THEN Resp(200, "OK")
    ELSE Resp(404, "404 Not Found")

\* fetch, lines 89-116: the response to a request (that of handleVerifyPage
\* is "page", that of handleTokenSubmit "submit"). req.json() throws on a
\* body that is not JSON; handleUpdate, being async, hands back a promise
\* and never throws into fetch.
FetchResponse(m, path, body) ==
    IF m = "GET" /\ path = "/verify" THEN Resp(200, "page")
    ELSE IF m = "GET" /\ path = "/" THEN Resp(200, "banner")
    ELSE IF m = "POST" /\ path = "/submit_token" THEN Resp(200, "submit")
    ELSE IF m = "POST"
    THEN IF body = "text" THEN Resp(400, "Bad Request") ELSE Resp(200, "OK")
    ELSE Resp(404, "404 Not Found")

\* fetch, lines 103-106: whether the request starts handleUpdate.
Dispatches(m, path, body) == m = "POST" /\ path # "/submit_token" /\ body # "text"

\* fetch: a request arrives and is answered; ctx.waitUntil keeps the promise
\* of handleUpdate, which runs on after the response.
Fetch(t, m, path, body) ==
    /\ CanStart(t)
    /\ \A s \in Tasks : s < t => ~Free(s)
    /\ task' = [task EXCEPT ![t] =
          IF Dispatches(m, path, body)
          THEN [pc |-> "h_run", kind |-> body]
          ELSE [pc |-> "done", kind |-> "none"]]
    /\ obs' = [obs EXCEPT !.ops = @ + 1,
                          !.req = [method |-> m, path |-> path, body |-> body],
                          !.resp = FetchResponse(m, path, body)]
    /\ UNCHANGED <<users, config, CACHE, now, sched>>

\* handleUpdate, lines 310-320: how its promise settles when the handler it
\* dispatches to throws or not. update.message of null throws inside the
\* try; handlePrivate and handleAdminReply are awaited inside the try
\* (lines 314-315); handleCallback and handleEdit are returned without await
\* (lines 312-313), so their promise is handed on as it is.
Settles(kind, throws) ==
    CASE kind = "null" -> "fulfilled"
      [] kind \in {"message", "group"} -> "fulfilled"
      [] OTHER -> IF throws THEN "rejected" ELSE "fulfilled"

\* handleUpdate runs to its end; the handler it dispatched to threw or not
\* (a failing chat API or database call that the handler does not catch,
\* such as the sendMessage of line 975 or the getUser of line 1108).
HandleUpdate(t) ==
    /\ task[t].pc = "h_run"
    /\ \E throws \in BOOLEAN :
         /\ task' = [task EXCEPT ![t] = [pc |-> "done", kind |-> task[t].kind]]
         /\ obs' = [obs EXCEPT !.settled = @ \cup
                       {[kind |-> task[t].kind, threw |-> throws,
                         as |-> Settles(task[t].kind, throws)]}]
    /\ UNCHANGED <<users, config, CACHE, now, sched>>

InitFetch ==
    /\ users = [u \in {Uid} |-> [NewRow EXCEPT !.user_state = "verified", !.topic_id = 1]]
    /\ config = [enable_verify |-> "false", enable_qa_verify |-> "false"]
    /\ CACHE = [p \in Procs |-> [data |-> NoRows, ts |-> 0, locks |-> NoLocks]]
    /\ now = CacheTtl
    /\ task = [t \in Tasks |-> Idle]
    /\ \E par \in 1..MaxPar :
          sched = [par |-> par, proc |-> [t \in Tasks |-> "p1"], url |-> TRUE]
    /\ obs = [ops |-> 0, req |-> [method |-> "GET", path |-> "/", body |-> "text"],
              resp |-> Resp(200, "banner"), settled |-> {}]

NextFetch ==
    \E t \in Tasks :
        \/ \E m \in Methods, path \in Paths, body \in Bodies : Fetch(t, m, path, body)
        \/ HandleUpdate(t)

SpecFetch == InitFetch /\ [][NextFetch]_vars

\* C26: a POST to a path other than /submit_token is answered 200 "OK" when
\* its body is JSON, with handleUpdate still to run, and 400 when it is
\* not; nothing that happens while the update is handled changes the answer.
C26_WebhookAnsweredAtOnce ==
    [][IF obs'.ops # obs.ops
       THEN LET q == obs'.req IN
            (q.method = "POST" /\ q.path # "/submit_token") =>
                IF q.body = "text"
                THEN /\ obs'.resp = Resp(400, "Bad Request")
                     /\ \A t \in Tasks : task'[t].pc = "h_run" => task[t].pc = "h_run"
                ELSE /\ obs'.resp = Resp(200, "OK")
                     /\ \E t \in Tasks : task'[t].pc = "h_run" /\ task[t].pc # "h_run"
       ELSE obs'.resp = obs.resp]_vars

\* The update of a request answered OK was handled, its handler threw, and
\* the answer stands.
C26_Witness ==
    /\ obs.req.method = "POST" /\ obs.req.body = "callback"
    /\ obs.resp = Resp(200, "OK")
    /\ \E s \in obs.settled : s.kind = "callback" /\ s.threw
    /\ Quiet

\* C27: the promise of handleUpdate never rejects, whatever the handler it
\* dispatches to does.
C27_HandleUpdateNeverRejects == \A s \in obs.settled : s.as = "fulfilled"

\* ------------------------------ the quiet-hours notice (under SpecBoard)
\* C28: with busy_mode on, any two quiet-hours notices sent to the user are
\* at least 300 s apart, also when the messages that draw them are handled
\* at the same time. (That the stage always goes on to relayToTopic is
\* PipeBusy's only exit.)
C28_OneNoticePerWindow ==
    \A i, j \in DOMAIN obs.busy :
        i < j => obs.busy[j] - obs.busy[i] >= BusyGap

\* ------------------------------------ the board topics (under SpecBoard)
\* C29: as long as no topic-lost error has emptied the stored id, the inbox
\* topic and the blacklist topic are each created at most once, also when
\* relays or blocks run at the same time.
C29_BoardTopicsCreatedOnce ==
    ~obs.cleared => (obs.inboxTopics <= 1 /\ obs.blTopics <= 1)

\* -------------------------- SpecInput: the console's two-step edit
\* The private texts an account sends: a plain one and the three commands
\* handlePrivate and handleAdminInput tell apart.
Texts == {"hello", "/cancel", "/start", "/help"}

\* handlePrivate, lines 322-367, and handleAdminInput, lines 1281-1335: a
\* private text from w (whose row is not blocked). /start and /help of a
\* primary admin are answered with the menu or the help text before the
\* input state is looked at (lines 330-339); with an input state stored for
\* a primary admin any other text is consumed as the value of welcome_msg,
\* or the state is dropped on /cancel; every other message goes on to the
\* user path.
PrivateText(w, txt) ==
    /\ obs.ops < MaxOps
    /\ IF isAdm(w) /\ txt \in {"/start", "/help"}
       THEN UNCHANGED config
       ELSE IF isAdm(w) /\ Cfg(StateKey(w)) = "input"
       THEN config' = [config EXCEPT
                  ![StateKey(w)] = "",
                  !["welcome_msg"] = IF txt = "/cancel" THEN @ ELSE txt]
       ELSE UNCHANGED config
    /\ obs' = [obs EXCEPT
          !.ops = @ + 1,
          !.pm = @ + 1,
          !.msg = [from |-> w, txt |-> txt],
          !.wrote = @ \cup {<<w, k>> : k \in {x \in DOMAIN config : config'[x] # config[x]}}]
    /\ UNCHANGED <<users, CACHE, now, task, sched>>

InitInput ==
    /\ users = [u \in {Uid} |-> [NewRow EXCEPT !.user_state = "verified", !.topic_id = 1]]
    /\ config = [k \in {"busy_mode", "enable_verify", "captcha_mode", "welcome_msg",
                        "authorized_admins"} \cup {StateKey(w) : w \in Senders} |->
                   CASE k = "authorized_admins" -> "extra"
                     [] k = "captcha_mode" -> "turnstile"
                     [] k \in {StateKey(w) : w \in Senders} -> ""
                     [] OTHER -> DEFAULTS(k)]
    /\ CACHE = [p \in Procs |-> [data |-> NoRows, ts |-> 0, locks |-> NoLocks]]
    /\ now = CacheTtl
    /\ task = [t \in Tasks |-> Idle]
    /\ sched = [par |-> 1, proc |-> [t \in Tasks |-> "p1"], url |-> TRUE]
    /\ obs = [ops |-> 0, wrote |-> {}, pm |-> 0,
              msg |-> [from |-> "member", txt |-> "hello"]]

NextInput ==
    \E w \in Senders :
        \/ \E verb \in {"rotate_mode", "toggle", "edit", "cl"} : ConfigCallback(w, verb)
        \/ \E txt \in Texts : PrivateText(w, txt)

SpecInput == InitInput /\ [][NextInput]_vars

\* C30: when a primary admin for whom an input state is stored (they pressed
\* config:edit:welcome_msg) sends a private message other than /cancel, the
\* message becomes the value of welcome_msg, the input state is cleared and
\* no other config row changes; a private message of a primary admin with no
\* input state stored changes no config row.
C30_NextMessageIsTheValue ==
    [][obs'.pm # obs.pm =>
          LET w == obs'.msg.from
              txt == obs'.msg.txt IN
          isAdm(w) =>
              IF config[StateKey(w)] = "input" /\ txt # "/cancel"
              THEN config' = [config EXCEPT !["welcome_msg"] = txt, ![StateKey(w)] = ""]
              ELSE config[StateKey(w)] # "input" => config' = config]_vars

\* -------------------------------- SpecRule: adding an auto-reply rule
MaxLen == 5      \* characters in an operator's input

\* The operator's inputs: strings of 'k' (any character other than '=')
\* and '=', as sequences of characters.
RuleTexts == UNION {[1..n -> {"k", "="}] : n \in 0..MaxLen}
Delim == <<"=", "=", "=">>

\* The positions at which "===" occurs in s.
DelimAt(s) == {i \in 1..Len(s) : i + 2 <= Len(s) /\ SubSeq(s, i, i + 2) = Delim}

\* txt.split("==="), as far as the destructuring [kk, rr] looks: the first
\* two parts, rr absent (Absent) when there is no delimiter.
Absent == <<"undefined">>
SplitFirst(s) ==
    IF DelimAt(s) = {} THEN <<s, Absent>>
    ELSE LET i == CHOOSE x \in DelimAt(s) : \A y \in DelimAt(s) : x <= y
             rest == SubSeq(s, i + 3, Len(s)) IN
         <<SubSeq(s, 1, i - 1),
           IF DelimAt(rest) = {} THEN rest
           ELSE LET j == CHOOSE x \in DelimAt(rest) : \A y \in DelimAt(rest) : x <= y
                IN SubSeq(rest, 1, j - 1)>>
\* JavaScript truthiness of a part: undefined and "" are falsy.
Truthy(p) == p # Absent /\ p # <<>>

\* A variant of line 1316 that tests the keyword alone.
RuleAcceptedKeywordOnly(s) == Truthy(SplitFirst(s)[1])

\* handleAdminInput, lines 1315-1316: if (kk && rr).
RuleAccepted(s) == Truthy(SplitFirst(s)[1]) /\ Truthy(SplitFirst(s)[2])

\* handleAdminConfig, lines 1223-1224: config:add:ar stores the input state.
RulePress ==
    /\ obs.ops < MaxOps
    /\ config' = PutRow(config, "admin_state", "input:ar_add")
    /\ obs' = [obs EXCEPT !.ops = @ + 1, !.rule = FALSE]
    /\ UNCHANGED <<users, CACHE, now, task, sched>>

\* handlePrivate, lines 360-366, and handleAdminInput, lines 1309-1331: a
\* text of the primary admin (not a command) with the state of an ar add
\* stored: the rule is appended to keyword_responses and the state deleted,
\* or the format error is sent and nothing is written.
RuleInput(s) ==
    /\ obs.ops < MaxOps
    /\ Cfg("admin_state") = "input:ar_add"
    /\ config' = IF RuleAccepted(s)
                 THEN DelRow(PutRow(config, "keyword_responses",
                                    Append(config["keyword_responses"],
                                           [keywords |-> SplitFirst(s)[1],
                                            response |-> SplitFirst(s)[2]])),
                             "admin_state")
                 ELSE config
    /\ obs' = [ops |-> obs.ops + 1, rule |-> TRUE, txt |-> s,
               err |-> ~RuleAccepted(s)]
    /\ UNCHANGED <<users, CACHE, now, task, sched>>

InitRule ==
    /\ users = [u \in {Uid} |-> [NewRow EXCEPT !.user_state = "verified"]]
    /\ config = [keyword_responses |-> <<>>]
    /\ CACHE = [p \in Procs |-> [data |-> NoRows, ts |-> 0, locks |-> NoLocks]]
    /\ now = CacheTtl
    /\ task = [t \in Tasks |-> Idle]
    /\ sched = [par |-> 1, proc |-> [t \in Tasks |-> "p1"], url |-> TRUE]
    /\ obs = [ops |-> 0, rule |-> FALSE, txt |-> <<>>, err |-> FALSE]

NextRule ==
    \/ RulePress
    \/ \E s \in RuleTexts : RuleInput(s)

SpecRule == InitRule /\ [][NextRule]_vars

\* The input has no "===" in it.
LacksDelim(s) == \A i \in 1..Len(s) : i + 2 > Len(s) \/ <<s[i], s[i + 1], s[i + 2]>> # Delim
\* The input begins with "===".
EmptyKeyword(s) == Len(s) >= 3 /\ <<s[1], s[2], s[3]>> = Delim
\* The input ends with its first "===".
EmptyResponse(s) ==
    \E i \in 1..Len(s) :
        /\ i + 2 = Len(s)
        /\ <<s[i], s[i + 1], s[i + 2]>> = Delim
        /\ \A j \in 1..(i - 1) : <<s[j], s[j + 1], s[j + 2]>> # Delim

\* C31: an auto-reply rule input without "===", or with nothing before it,
\* or with nothing after it, is answered with the format error and leaves
\* keyword_responses as it was.
C31_BadRuleRejected ==
    [][(obs'.rule /\ obs'.ops # obs.ops) =>
          LET s == obs'.txt IN
          (LacksDelim(s) \/ EmptyKeyword(s) \/ EmptyResponse(s)) =>
              /\ obs'.err
              /\ config'["keyword_responses"] = config["keyword_responses"]]_vars

\* A rule with a keyword and no response was refused.
C31_Witness ==
    /\ obs.rule /\ obs.err
    /\ obs.txt = <<"k", "=", "=", "=">>
    /\ config["keyword_responses"] = <<>>

\* ------------------------------------ the note input (under SpecReply)
\* The input state stored for w once the step is done.
StateAfter(w) == IF StateKey(w) \in DOMAIN config' THEN config'[StateKey(w)] ELSE ""

\* C32: a message of an authorized admin in a topic of the operator group,
\* sent while that admin's input_note state is stored, becomes the note of
\* the state's target user (emptied by "/clear" and its synonym, set by any
\* other text), is not copied to a user, and empties the state; with no
\* state stored the admin's message in the user's topic is copied to the
\* user.
C32_NoteInputConsumedOnce ==
    [][(obs'.reply /\ obs'.ops # obs.ops) =>
          LET g == obs'.g IN
          (g.thread # NULL /\ ~g.bot /\ isAuthAdmin(g.from)) =>
              IF Cfg(StateKey(g.from)) = "input_note"
              THEN /\ Info(users'[Uid], "note") =
                          (IF g.text \in {"/clear", "qingchu"} THEN NULL
                           ELSE IF g.text = "hello" THEN 1 ELSE 2)
                   /\ obs'.last.copy = ""
                   /\ StateAfter(g.from) = ""
              ELSE /\ users' = users
                   /\ users[Uid].topic_id = g.thread => obs'.last.copy # ""]_vars

\* A stored input_note state was consumed by "/clear": the note is empty
\* and the state cleared.
C32_Witness ==
    /\ obs.reply /\ obs.last.note
    /\ obs.g.text = "/clear"
    /\ "note" \in DOMAIN users[Uid].user_info
    /\ Info(users[Uid], "note") = NULL
    /\ Cfg(StateKey(obs.g.from)) = ""

\* ------------- SpecPipeBlock: the pipeline beside the block buttons
\* handleCallback, lines 1019-1022: a block: or unblock: button is pressed
\* while the pipeline's history is kept.
PipeCallback(t, isB) ==
    /\ CanStart(t)
    /\ \A s \in Tasks : s < t => ~Free(s)
    /\ Step(t, Frame(IF isB THEN "block" ELSE "unblock", "cb_get", "done"))
    /\ obs' = [obs EXCEPT !.ops = @ + 1]
    /\ UNCHANGED <<users, config, CACHE, now, sched>>

\* The messages of an ordinary user: a voice message, and texts with or
\* without a block keyword and an auto-reply keyword.
BlockMsgs == {m \in Msgs : m.from = "member" /\ m.attrs \in {{"voice"}, {"text"}}}

NextPipeBlock ==
    \/ MarkReaction
    \/ \E t \in Tasks :
        \/ \E m \in BlockMsgs : PipeMessage(t, m)
        \/ \E isB \in BOOLEAN : PipeCallback(t, isB)
        \/ PipeSteps(t)
        \/ Accrue(t)
        \/ BlacklistOn(t)
        \/ BlacklistTopic(t)
        \/ BlacklistCard(t)
        \/ RelayReread(t)
        \/ RelayCreate(t)
        \/ RelayPersist(t)
        \/ RelayCard(t)
        \/ RelayCatch(t)
        \/ CallbackGetUser(t)
        \/ CallbackWrite(t)
        \/ BlacklistOff(t)

SpecPipeBlock == InitPipe /\ [][NextPipeBlock]_vars

\* Where a handler is while it blocks or unblocks.
BlockPcs == {"accrue", "bl_on", "bl_topic", "bl_card", "bl_off", "cb_get", "cb_write"}

\* C33: the steps of a keyword-accrual block, of a block: callback and of
\* an unblock: callback leave user_state and topic_id as they are, and a
\* handler that ends with a type rejection has written nothing to the row.
C33_BlockIsOverlay ==
    [][\A t \in Tasks :
          /\ (task[t].pc \in BlockPcs \/ task'[t].pc \in BlockPcs) =>
                /\ users'[Uid].user_state = users[Uid].user_state
                /\ users'[Uid].topic_id = users[Uid].topic_id
          /\ (task[t].pc \in {"v_get", "v_kw", "v_type"} /\ task'[t].pc \in {"v_kw", "v_type", "done"})
                => users' = users
          /\ task'[t].pc = "v_get" => users' = users]_vars

\* A message was refused for its type, then the user was blocked with the
\* button and unblocked again.
C33_Witness ==
    /\ Quiet
    /\ obs.hit = "type"
    /\ \E t \in Tasks : task[t].pc = "done" /\ task[t].kind = "unblock"
    /\ obs.posted = 1 /\ obs.cards = {}

\* ----------------------- accrual beside other writers (under SpecBlock)
\* C34: the write of a block-keyword hit that leaves block_count below the
\* threshold does not turn is_blocked from true to false, whatever was
\* written to the row since the handler read it.
C34_AccrualNeverUnblocks ==
    [][\A t \in Tasks :
          (/\ task[t].pc = "accrue"
           /\ task'[t].pc # "accrue"
           /\ task[t].u.block_count + 1 < Threshold)
              => ~(users[Uid].is_blocked /\ ~users'[Uid].is_blocked)]_vars

\* C35: when two block-keyword-hitting messages of a verified, unblocked
\* user with block_count 0 are the only updates and both handlers have
\* ended, the stored block_count is 2.
C35_NoViolationLost ==
    (/\ obs.ops = 2
     /\ obs.pure
     /\ \A t \in Tasks : task[t].pc = "done" /\ task[t].kind = "kw" /\ ~task[t].blk)
        => Row.block_count = 2

\* ------------------------ SpecPress: who presses the block buttons
\* handleCallback, lines 1019-1022: w presses a block: or unblock: button
\* of a card in the operator group; the sender of the callback is not
\* looked at.
PressCallback(t, w, isB) ==
    /\ CanStart(t)
    /\ \A s \in Tasks : s < t => ~Free(s)
    /\ Step(t, Frame(IF isB THEN "block" ELSE "unblock", "cb_get", "done"))
    /\ obs' = [obs EXCEPT !.ops = @ + 1, !.press = w]
    /\ UNCHANGED <<users, config, CACHE, now, sched>>

\* A verified user with a topic, blocked or not; one additional admin; the
\* presses are handled one after another.
InitPress ==
    /\ \E b \in BOOLEAN :
          users = [u \in {Uid} |-> [NewRow EXCEPT !.user_state = "verified", !.topic_id = 1,
                                                  !.is_blocked = b]]
    /\ \E a \in {"", "extra"} : config = [authorized_admins |-> a]
    /\ CACHE = [p \in Procs |-> [data |-> NoRows, ts |-> 0, locks |-> NoLocks]]
    /\ now = CacheTtl
    /\ task = [t \in Tasks |-> Idle]
    /\ sched = [par |-> 1, proc |-> [t \in Tasks |-> "p1"], url |-> TRUE]
    /\ obs = [ops |-> 0, cards |-> {}, posted |-> 0, press |-> "primary"]

NextPress ==
    \E t \in Tasks :
        \/ \E w \in Senders, isB \in BOOLEAN : PressCallback(t, w, isB)
        \/ CallbackGetUser(t)
        \/ CallbackWrite(t)
        \/ BlacklistOn(t)
        \/ BlacklistTopic(t)
        \/ BlacklistCard(t)
        \/ BlacklistOff(t)

SpecPress == InitPress /\ [][NextPress]_vars

\* C36: is_blocked changes in the handling of a block: or unblock: callback
\* only when the account that pressed is listed in ADMIN_IDS or in
\* authorized_admins.
C36_OnlyAdminsBlock ==
    [][users'[Uid].is_blocked # users[Uid].is_blocked =>
          (obs.press = "primary"
             \/ (obs.press = "extra" /\ Cfg("authorized_admins") = "extra"))]_vars

\* ------------------ SpecAnswer: the QA answer and the policy pipeline
\* The messages of an ordinary user: a text, which is or is not the QA
\* answer ("qa") and does or does not hit a block keyword ("kw"), or a
\* voice message without text.
AnswerMsgs ==
    [attrs : {{"text"}}, hits : SUBSET {"kw", "qa"}, from : {"member"}]
        \cup [attrs : {{"voice"}}, hits : {{}}, from : {"member"}]

\* handlePrivate, lines 343-380, for a message that is not /start: the
\* blocked test, the gates (a text of a user in pending_verification goes
\* to verifyAnswer, line 373, whose comparison of line 924 is made here;
\* any other message of a user who is not verified goes to sendStart), and
\* handleVerifiedMsg for everyone else.
AnswerGet(t) ==
    /\ task[t].pc = "v_get"
    /\ Step(t, [task[t] EXCEPT
          !.u = Row,
          !.called = ~Row.is_blocked /\ Row.user_state = "pending_verification"
                        /\ "text" \in obs.cur.attrs
                        /\ "qa" \notin obs.cur.hits,      \* "wrong", line 930
          !.pc = IF Row.is_blocked THEN "done"
                 ELSE IF Row.user_state # "verified"
                         /\ (getBool("enable_verify") \/ getBool("enable_qa_verify"))
                      THEN (IF Row.user_state = "pending_verification"
                               /\ "text" \in obs.cur.attrs
                            THEN (IF "qa" \in obs.cur.hits THEN "va_state" ELSE "done")
                            ELSE "s_get")
                 ELSE "v_kw"])
    /\ UNCHANGED <<users, config, CACHE, now, sched, obs>>

\* A user in pending_verification without a topic, the QA gate on, the
\* captcha gate and the text switch on or off; messages are handled one
\* after another.
InitAnswer ==
    /\ users = [u \in {Uid} |-> [NewRow EXCEPT !.user_state = "pending_verification"]]
    /\ \E txt, cap \in {"true", "false"} :
          config = [k \in SwitchKeys \cup {"enable_verify", "enable_qa_verify", "busy_mode",
                                           "block_threshold", "authorized_admins"} |->
                      CASE k = "enable_text_forwarding" -> txt
                        [] k \in SwitchKeys -> "true"
                        [] k = "enable_qa_verify" -> "true"
                        [] k = "enable_verify" -> cap
                        [] k = "block_threshold" -> 1
                        [] k = "authorized_admins" -> "extra"
                        [] OTHER -> "false"]
    /\ CACHE = [p \in Procs |-> [data |-> NoRows, ts |-> 0, locks |-> NoLocks]]
    /\ now = 2 * BusyGap
    /\ task = [t \in Tasks |-> Idle]
    /\ sched = [par |-> 1, proc |-> [t \in Tasks |-> "p1"], url |-> TRUE]
    /\ obs = PipeObs

NextAnswer ==
    \/ MarkReaction
    \/ \E t \in Tasks :
        \/ \E m \in AnswerMsgs : PipeMessage(t, m)
        \/ AnswerGet(t)
        \/ SendStartGet(t)
        \/ SendStartState(t)
        \/ VerifyAnswerState(t)
        \/ VerifyAnswerGet(t)
        \/ PipeKeywords(t)
        \/ PipeType(t)
        \/ PipeAuto(t)
        \/ PipeBusy(t)
        \/ Accrue(t)
        \/ BlacklistOn(t)
        \/ BlacklistTopic(t)
        \/ BlacklistCard(t)
        \/ RelayEnter(t)
        \/ RelayReread(t)
        \/ RelayCreate(t)
        \/ RelayPersist(t)
        \/ RelayCard(t)
        \/ RelayCatch(t)
        \/ RelayFwd(t)
        \/ RelayCopy(t)
        \/ RelayExpire(t)
        \/ RelayAck(t)
        \/ RelayFanOut(t)

SpecAnswer == InitAnswer /\ [][NextAnswer]_vars

\* C37: a private message that was forwarded or copied into the topic has
\* been through the block-keyword stage and the type stage of
\* handleVerifiedMsg first.
C37_RelayedOnlyAfterPipeline ==
    Relayed => (Len(obs.stages) >= 2 /\ obs.stages[1] = "kw" /\ obs.stages[2] = "type")

\* --------------- SpecSubmitFail: what a refused /submit_token leaves behind
\* fetch: POST /submit_token -> handleTokenSubmit(req, env); the rows as
\* they were when the request arrived are remembered.
SubmitRequest(t, req) ==
    /\ CanStart(t)
    /\ \A s \in Tasks : s < t => ~Free(s)
    /\ task' = [task EXCEPT ![t] = SubmitFrame(req)]
    /\ obs' = [obs EXCEPT !.ops = @ + 1, !.before = users]
    /\ UNCHANGED <<users, config, CACHE, now, sched>>

InitSubmitFail ==
    /\ users = [u \in Ids |-> [NewRow EXCEPT !.user_state = "pending_turnstile"]]
    /\ \E q \in {"true", "false"} :
          config = [enable_verify |-> "true", enable_qa_verify |-> q]
    /\ CACHE = [p \in Procs |-> [data |-> NoRows, ts |-> 0, locks |-> NoLocks]]
    /\ now = SubmitStart
    /\ task = [t \in Tasks |-> Idle]
    /\ sched = [par |-> 1, proc |-> [t \in Tasks |-> "p1"], url |-> TRUE]
    /\ obs = [ops |-> 0, before |-> users]

NextSubmitFail ==
    \/ Tick(500, SubmitStart)
    \/ \E t \in Tasks :
        \/ \E req \in Requests : SubmitRequest(t, req)
        \/ SubmitSiteverify(t)
        \/ SubmitInitData(t)
        \/ SubmitState(t)
        \/ SubmitTopic(t)
        \/ SubmitPersist(t)

SpecSubmitFail == InitSubmitFail /\ [][NextSubmitFail]_vars

\* C38: when /submit_token has answered success false, every user's stored
\* user_state and topic_id are what they were when the request arrived.
C38_FailedSubmitLeavesRow ==
    \A t \in Tasks :
        (task[t].pc = "done" /\ ~task[t].resp.success) =>
            \A id \in Ids :
                /\ users[id].user_state = obs.before[id].user_state
                /\ users[id].topic_id = obs.before[id].topic_id

\* ------------------------------------------- C39, under SpecRelay
\* The steps of relayToTopic that end with a notice to the user: the
\* "busy" notice of line 566 and the "expired" notice of line 602.
NoticePcs == {"r_catch", "r_expire"}

\* C39: the handler of a private message of a verified, unblocked user
\* ends only after a forward or copy into the topic succeeded, or with a
\* step that sends the user a notice that the message was not delivered.
C39_RelayedOrTold ==
    [][\A t \in Tasks :
          (task[t].pc \notin {"idle", "done"} /\ task'[t].pc = "done") =>
              \/ obs'.msg.fwd = "ok"
              \/ obs'.msg.cp = "ok"
              \/ task[t].pc \in NoticePcs]_vars

\* ------------------------------------------- C40, under SpecAnswer
\* new < pending_turnstile < pending_verification < verified.
Rank(st) ==
    CASE st = "new" -> 0
      [] st = "pending_turnstile" -> 1
      [] st = "pending_verification" -> 2
      [] st = "verified" -> 3

\* C40: no step moves the stored user_state backwards along
\* new < pending_turnstile < pending_verification < verified.
C40_AdmissionNeverBackwards ==
    [][Rank(Row'.user_state) >= Rank(Row.user_state)]_vars
====
